---- MODULE Spec2Model ----
(***************************************************************************)
(* Contest Workflow Orchestrator of tango-lee/contest-manager.             *)
(*                                                                         *)
(* The module models two React components and the gateway client they use: *)
(*   - ContestManager   (src/src/components/ReceiptValidation.tsx, second  *)
(*                       half of the file, lines 315-1491)                 *)
(*   - ReceiptValidation (same file, lines 1-312)                          *)
(*   - ContestManagerAPI (src/src/utils/apiClient.ts)                      *)
(*                                                                         *)
(* A React function component re-runs on every state change; an async      *)
(* function keeps the values of the render that started it (its closure)   *)
(* across every await.  Each started async function is therefore a record  *)
(* in `tasks` (or `rtasks`) holding its captured values and its position;  *)
(* every await is a separate step of the model, because any other handler  *)
(* may run while the promise is pending.  State setters that run without   *)
(* an await between them form one step, together with the effects          *)
(* (useEffect) the re-render triggers.                                     *)
(*                                                                         *)
(* Two identical pending calls (same function, same captured values, same  *)
(* position) are one element of the set: their continuations write the     *)
(* same values.                                                            *)
(***************************************************************************)
EXTENDS Naturals, Integers, Sequences, FiniteSets, TLC

(***************************************************************************)
(* Bounds of the model                                                     *)
(***************************************************************************)
\* concurrently pending async calls (requests and timers) of ContestManager
MaxPending == 4
\* pending summary reads of the ReceiptValidation component
MaxSummaryReads == 2
\* uploads started on one mounted ReceiptValidation component
MaxUploads == 2
\* uploads of one session of re-uploads
MaxReuploads == 3
\* rows of the winner rules list of the rules form
MaxWinnerRules == 2

\* a time before the form is used: time stamps are larger than the id '1'
\* of the template's row
DateNowBase == 1000000

(***************************************************************************)
(* Values                                                                  *)
(***************************************************************************)
\* JS null / undefined
NULL == [null |-> TRUE]

\* client buckets and projects that exist remotely from the start
Buckets == {"b1", "b2"}
ProjectNames == {"p1"}

\* what the user types into the two text inputs of the create modal
ClientNameInputs == {"acme", "Acme_123"}
ProjectHandleInputs == {"7", "x"}

\* e.target.value.toLowerCase().replace(/[^a-z0-9-]/g, '')
NormalizeClientName(raw) ==
  CASE raw = "acme" -> "acme"
    [] raw = "Acme_123" -> "acme123"
    [] OTHER -> ""

\* e.target.value.replace(/[^0-9]/g, '')
NormalizeProjectHandle(raw) ==
  CASE raw = "7" -> "7"
    [] OTHER -> ""

\* projectHandle.padStart(4, '0')
padStart4(handle) == IF handle = "7" THEN "0007" ELSE handle

\* the names createNewBucket can produce
CreatedBuckets == {"sweepstakes-" \o NormalizeClientName(raw) : raw \in ClientNameInputs}
CreatedProjects == {"project-" \o padStart4(NormalizeProjectHandle(raw)) : raw \in {"7"}}

Pairs == (Buckets \cup CreatedBuckets) \X (ProjectNames \cup CreatedProjects)

\* the elements of a list
Range(seq) == {seq[i] : i \in 1..Len(seq)}

\* values of an <input type="date">: "" when unset
Dates == {"2024-12-01", "2024-12-31", "2025-01-31"}
DateInputs == Dates \cup {""}

\* new Date(d).getTime(), up to the order of the dates above
DateOrder(d) ==
  CASE d = "2024-12-01" -> 1
    [] d = "2024-12-31" -> 2
    [] d = "2025-01-31" -> 3

\* new Date(a) > new Date(b) for two set dates
DateGT(a, b) == DateOrder(a) > DateOrder(b)

\* JS truthiness of a string
Truthy(s) == s # ""

\* a || b on strings
OrElse(a, b) == IF Truthy(a) THEN a ELSE b

StatusValues == {"pending", "processing", "completed", "error"}

\* ProcessingStatus documents the status endpoint can answer with
StatusDocs ==
  [status : StatusValues, eligible_contestants : {0, 1}]

\* JS numbers as parseInt returns them
Num(n) == [num |-> n]
NaN == [nan |-> TRUE]

\* Object.keys(US_STATES_TIMEZONES): the state codes in the order of the table
AllStates ==
  <<"AL", "AK", "AZ", "AR", "CA", "CO", "CT", "DE", "FL", "GA",
    "HI", "ID", "IL", "IN", "IA", "KS", "KY", "LA", "ME", "MD",
    "MA", "MI", "MN", "MS", "MO", "MT", "NE", "NV", "NH", "NJ",
    "NM", "NY", "NC", "ND", "OH", "OK", "OR", "PA", "RI", "SC",
    "SD", "TN", "TX", "UT", "VT", "VA", "WA", "WV", "WI", "WY">>

\* US_STATES_TIMEZONES[code].timezone
timezoneOf(code) ==
  CASE code \in {"CT", "DE", "FL", "GA", "IN", "KY", "ME", "MD", "MA", "MI",
                 "NH", "NJ", "NY", "NC", "OH", "PA", "RI", "SC", "VT", "VA",
                 "WV"} -> "ET"
    [] code \in {"AL", "AR", "IL", "IA", "KS", "LA", "MN", "MS", "MO", "NE",
                 "ND", "OK", "SD", "TN", "TX", "WI"} -> "CT"
    [] code \in {"AZ", "CO", "ID", "MT", "NM", "UT", "WY"} -> "MT"
    [] code \in {"CA", "NV", "OR", "WA"} -> "PT"
    [] code = "AK" -> "AKT"
    [] code = "HI" -> "HT"

\* a row of the winner rules list: the ids are decimal strings ('1',
\* Date.now().toString()), modelled by the numbers they spell
WinnerRule(id, count) == [id |-> id, count |-> count, period |-> "day"]

\* ContestRules documents (the fields the orchestration decides on), with
\* the eligible states, the total and the winner rules of the default template
RulesDoc(es, ee, fs, fe) ==
  [entry_start_date |-> es, entry_end_date |-> ee,
   flight_start_date |-> fs, flight_end_date |-> fe,
   eligible_states |-> <<"CA", "NY", "TX", "FL">>,
   total_winners |-> Num(10),
   winner_rules |-> <<WinnerRule(1, 1)>>]

\* the default template of ContestRulesForm
DefaultTemplate ==
  RulesDoc("2024-12-01", "2024-12-31", "2024-12-01", "2024-12-31")

\* a rules document stored remotely whose entry window is reversed
ReversedWindowDoc ==
  RulesDoc("2024-12-31", "2024-12-01", "2024-12-01", "2024-12-31")

\* a rules document stored remotely whose winner_rules list is empty
NoWinnerRulesDoc == [DefaultTemplate EXCEPT !.winner_rules = << >>]

\* winner lists and validated-file listings the remote answers with
WinnerLists == {<< >>, <<1>>}
FileLists == {<< >>, <<"validated.json">>}

(***************************************************************************)
(* State                                                                   *)
(***************************************************************************)
VARIABLES
  \* ContestManager: useState hooks
  selectedBucket, selectedProject,
  contestRules, rulesEditMode,
  processingStatus, validatedFiles, winners,
  flightStartDate, flightEndDate,
  loading,
  \* ContestRulesForm: formData while the form is mounted, NULL otherwise
  formData,
  \* window.alert: what the last step showed (alert blocks until it is
  \* dismissed, so the message is gone when the step is over), NULL if nothing
  alertMsg,
  \* pending async calls of ContestManager
  tasks,
  \* the remote rules store, per (bucket, project)
  remoteRules,
  \* ContestManager: the option lists (by name) and loading.buckets /
  \* loading.projects, errors.buckets
  buckets, projects, loadingLists, errors,
  \* ContestManager: the create modal
  showCreateModal, modalType, clientName, projectHandle, createStatus,
  createdBucketName,
  \* the remote bucket list and the remote project list (GET /projects)
  remoteBuckets, remoteProjects,
  \* ReceiptValidation: props, useState hooks, the pollers started by
  \* pollForResults and the pending calls of the component
  props, summary, uploading, processing, error, pollers, rtasks, keyword,
  \* FileUpload: the uploads list and the pending calls of uploadFile
  uploads, utasks

mgrVars == <<selectedBucket, selectedProject, contestRules, rulesEditMode,
             processingStatus, validatedFiles, winners, flightStartDate,
             flightEndDate, loading, formData, alertMsg, tasks,
             remoteRules>>

listVars == <<buckets, projects, errors>>

modalVars == <<showCreateModal, modalType, clientName, projectHandle,
               createStatus, createdBucketName>>

remoteListVars == <<remoteBuckets, remoteProjects>>

rvVars == <<props, summary, uploading, processing, error, pollers, rtasks,
           keyword>>

vars == <<mgrVars, listVars, loadingLists, modalVars, remoteListVars, rvVars,
          uploads, utasks>>

(***************************************************************************)
(* ContestManager: derived values of a render                              *)
(***************************************************************************)
\* processingStatus?.status
StatusOf(ps) == IF ps = NULL THEN "undefined" ELSE ps.status

hasClientAndProject == Truthy(selectedBucket) /\ Truthy(selectedProject)

canSetRules == hasClientAndProject

canProcessData == hasClientAndProject /\ contestRules # NULL

\* the gate without its test of eligible_contestants
canSelectWinnersIgnoringCount ==
  /\ hasClientAndProject
  /\ StatusOf(processingStatus) = "completed"

canSelectWinners ==
  /\ hasClientAndProject
  /\ StatusOf(processingStatus) = "completed"
  /\ processingStatus.eligible_contestants > 0

\* <ContestRulesForm> is rendered exactly in this case
FormMounted == canSetRules /\ rulesEditMode

\* useState(rules || {...default template...}) of ContestRulesForm
InitialFormData(rules) == IF rules # NULL THEN rules ELSE DefaultTemplate

(***************************************************************************)
(* Pending calls                                                           *)
(***************************************************************************)
CheckTask(b, p) == [kind |-> "checkExistingRules", bucket |-> b, project |-> p]

\* seen: whether processingStatus?.status === 'completed' held in the render
\* that created the callback; next: what the caller does once
\* loadProjectData returns.  The call starts at its second await: the first,
\* getRawEntriesCount, never rejects and only feeds the entry counter, which
\* no other code reads.
LoadTask(b, p, seen, next) ==
  [kind |-> "loadProjectData", bucket |-> b, project |-> p, seen |-> seen,
   pc |-> "status", next |-> next]

TasksOf(k) == {t \in tasks : t.kind = k}

\* the bound on the pending calls
WithinBounds(ts) == Cardinality(ts) <= MaxPending

\* an effect that depends on the selection and the flight dates only
EffectDepsWithoutStatus ==
  <<selectedBucket, selectedProject, flightStartDate, flightEndDate>>

\* the values the two selection-dependent callbacks and the effect depend on
EffectDeps ==
  <<selectedBucket, selectedProject, flightStartDate, flightEndDate,
    StatusOf(processingStatus)>>

\* useEffect(..., [selectedBucket, selectedProject, checkExistingRules,
\*                 loadProjectData]) of the render that follows a step
SelectionEffect ==
  IF EffectDeps' # EffectDeps /\ Truthy(selectedBucket') /\ Truthy(selectedProject')
  THEN {CheckTask(selectedBucket', selectedProject'),
        LoadTask(selectedBucket', selectedProject',
                 StatusOf(processingStatus') = "completed", "return")}
  ELSE {}

\* useEffect(() => { if (selectedBucket) loadProjects() },
\*           [selectedBucket, loadProjects]) of the render that follows a step.
\* listProjects ignores its argument (GET /projects), so the call captures
\* nothing its continuation uses.
LoadProjectsTask == [kind |-> "loadProjects"]

ProjectsEffect ==
  IF selectedBucket' # selectedBucket /\ Truthy(selectedBucket')
  THEN {LoadProjectsTask}
  ELSE {}

\* The re-render after a step: the form mounts or unmounts, the effects run.
\* `rest` are the calls still pending after the step itself, `ll` the list
\* loading flags the step leaves.
RenderCore(rest, ll) ==
  /\ formData' = IF FormMounted'
                 THEN (IF FormMounted THEN formData
                       ELSE InitialFormData(contestRules'))
                 ELSE NULL
  /\ tasks' = rest \cup SelectionEffect \cup ProjectsEffect
  /\ loadingLists' = IF ProjectsEffect # {}
                     THEN [ll EXCEPT !.projects = TRUE] ELSE ll
  /\ WithinBounds(tasks')
  /\ UNCHANGED <<rvVars, uploads, utasks>>

\* the re-render after a step that touches neither the lists nor the modal
Render(rest) ==
  /\ UNCHANGED <<listVars, modalVars, remoteListVars>>
  /\ RenderCore(rest, loadingLists)

\* ReceiptValidation as mounted without a selection
InitReceipt ==
  /\ props = [selectedBucket |-> "", selectedProject |-> ""]
  /\ summary = NULL
  /\ uploading = FALSE
  /\ processing = FALSE
  /\ error = NULL
  /\ pollers = << >>
  /\ rtasks = {}
  /\ keyword = ""

\* ContestManager as mounted, against a remote rules store `store` and a
\* remote bucket list `bucketList`: the mount effect has called loadBuckets
InitWith(store, bucketList) ==
  /\ InitReceipt
  /\ uploads = << >>
  /\ utasks = {}
  /\ buckets = << >>
  /\ projects = << >>
  /\ loadingLists = [buckets |-> TRUE, projects |-> FALSE]
  /\ errors = [buckets |-> NULL]
  /\ showCreateModal = FALSE
  /\ modalType = "client"
  /\ clientName = ""
  /\ projectHandle = ""
  /\ createStatus = "idle"
  /\ createdBucketName = ""
  /\ remoteBuckets = bucketList
  /\ remoteProjects = <<"p1">>
  /\ selectedBucket = ""
  /\ selectedProject = ""
  /\ contestRules = NULL
  /\ rulesEditMode = TRUE
  /\ processingStatus = NULL
  /\ validatedFiles = << >>
  /\ winners = << >>
  /\ flightStartDate = ""
  /\ flightEndDate = ""
  /\ loading = [setRules |-> FALSE, processData |-> FALSE, selectWinners |-> FALSE]
  /\ formData = NULL
  /\ alertMsg = NULL
  /\ tasks = {[kind |-> "loadBuckets"]}
  /\ remoteRules = store

\* a store with rules for one project of b1, rules with a reversed entry
\* window for one of b2
MixedStore ==
  [pr \in Pairs |-> CASE pr[1] = "b1" -> DefaultTemplate
                     [] pr[1] = "b2" -> ReversedWindowDoc
                     [] OTHER -> NULL]

\* a store with the same rules for every project
UniformStore == [pr \in Pairs |-> DefaultTemplate]

\* a store without rules
EmptyStore == [pr \in Pairs |-> NULL]

\* the remote bucket lists of the scenarios
TwoBuckets == <<"b1", "b2">>
OneBucket == <<"b1">>

Init == InitWith(MixedStore, TwoBuckets)

(***************************************************************************)
(* Selection Context                                                       *)
(***************************************************************************)
\* client <select> onChange: setSelectedBucket(e.target.value); the control
\* is disabled while the bucket list loads and offers the list and ""
SelectClient(b) ==
  /\ ~loadingLists.buckets
  /\ b \in Range(buckets) \cup {""}
  /\ b # selectedBucket
  /\ selectedBucket' = b
  /\ UNCHANGED <<selectedProject, contestRules, rulesEditMode,
                 processingStatus, validatedFiles, winners, flightStartDate,
                 flightEndDate, loading, remoteRules>>
  /\ alertMsg' = NULL
  /\ Render(tasks)

\* the "remove client selection" button
RemoveClient ==
  /\ Truthy(selectedBucket)
  /\ selectedBucket' = ""
  /\ selectedProject' = ""
  /\ UNCHANGED <<contestRules, rulesEditMode, processingStatus,
                 validatedFiles, winners, flightStartDate, flightEndDate,
                 loading, remoteRules>>
  /\ alertMsg' = NULL
  /\ Render(tasks)

\* project <select> onChange: setSelectedProject(e.target.value); the
\* control is disabled while no client is selected or the project list
\* loads, and offers the list and ""
SelectProject(p) ==
  /\ Truthy(selectedBucket) /\ ~loadingLists.projects
  /\ p \in Range(projects) \cup {""}
  /\ p # selectedProject
  /\ selectedProject' = p
  /\ UNCHANGED <<selectedBucket, contestRules, rulesEditMode,
                 processingStatus, validatedFiles, winners, flightStartDate,
                 flightEndDate, loading, remoteRules>>
  /\ alertMsg' = NULL
  /\ Render(tasks)

(***************************************************************************)
(* Remote Gateway Client: the answers of the rules endpoints               *)
(***************************************************************************)
\* getContestRules: the stored document, or a rejection (404 when nothing is
\* stored; any request may also fail for another reason)
GetContestRulesAnswers(b, p) ==
  {[ok |-> FALSE, status |-> IF remoteRules[<<b, p>>] = NULL THEN 404 ELSE 500]}
  \cup (IF remoteRules[<<b, p>>] = NULL THEN {}
        ELSE {[ok |-> TRUE, doc |-> remoteRules[<<b, p>>]]})

\* getExistingRules: null instead of any rejection
getExistingRules(answer) == IF answer.ok THEN answer.doc ELSE NULL

(***************************************************************************)
(* Rules Reconciler                                                        *)
(***************************************************************************)
\* the continuation of checkExistingRules after its await
ApplyExistingRules(t, existingRules) ==
  IF existingRules # NULL
  THEN contestRules' = existingRules /\ rulesEditMode' = FALSE
  ELSE contestRules' = NULL /\ rulesEditMode' = TRUE

CheckExistingRulesResolve(t) ==
  /\ t \in TasksOf("checkExistingRules")
  /\ \E answer \in GetContestRulesAnswers(t.bucket, t.project) :
       ApplyExistingRules(t, getExistingRules(answer))
  /\ UNCHANGED <<selectedBucket, selectedProject, processingStatus,
                 validatedFiles, winners, flightStartDate, flightEndDate,
                 loading, remoteRules>>
  /\ alertMsg' = NULL
  /\ Render(tasks \ {t})

(***************************************************************************)
(* Rule Validator & Builder: Edit Rules, submit, setRules                  *)
(***************************************************************************)
\* createContestRules (POST): the remote creates the document, or reports
\* that one exists already (409); a request may also fail otherwise (500)
CreateContestRulesAnswers(b, p) ==
  IF remoteRules[<<b, p>>] = NULL
  THEN {[ok |-> TRUE, status |-> 200], [ok |-> FALSE, status |-> 500]}
  ELSE {[ok |-> FALSE, status |-> 409]}

\* updateContestRules (PUT): the remote replaces the stored document, or has
\* none to replace (404); a request may also fail otherwise (500)
UpdateContestRulesAnswers(b, p) ==
  IF remoteRules[<<b, p>>] = NULL
  THEN {[ok |-> FALSE, status |-> 404]}
  ELSE {[ok |-> TRUE, status |-> 200], [ok |-> FALSE, status |-> 500]}

\* the "Edit Rules" button of the saved display
EditRules ==
  /\ canSetRules /\ ~rulesEditMode
  /\ rulesEditMode' = TRUE
  /\ UNCHANGED <<selectedBucket, selectedProject, contestRules,
                 processingStatus, validatedFiles, winners, flightStartDate,
                 flightEndDate, loading, remoteRules>>
  /\ alertMsg' = NULL
  /\ Render(tasks)

\* setRules: "Integrate flight dates from modal creation"
rulesWithFlightDates(rules) ==
  [rules EXCEPT
     !.flight_start_date = OrElse(flightStartDate, rules.flight_start_date),
     !.flight_end_date = OrElse(flightEndDate, rules.flight_end_date)]

\* The total winners input is <input type="number" min="1" max="1000">
\* without `required`: it is valid while it is empty, which is how NaN and
\* null are displayed.
totalWinnersValid(n) ==
  IF n \in {NaN, NULL} THEN TRUE ELSE n.num >= 1 /\ n.num <= 1000

\* The count inputs of the form are <input type="number" min="0"
\* max="1000">; the form is not noValidate, so the browser sends no submit
\* event while one of them holds a value outside that range.  An empty list
\* renders no count input.
formCheckValidity(data) ==
  /\ \A i \in 1..Len(data.winner_rules) :
       data.winner_rules[i].count >= 0 /\ data.winner_rules[i].count <= 1000
  /\ totalWinnersValid(data.total_winners)

\* handleSubmit of the form: onSave(formData), that is setRules(formData) up
\* to the first await of contestAPI.setContestRules
handleSubmit ==
  /\ FormMounted /\ ~loading.setRules
  /\ formCheckValidity(formData)
  /\ loading' = [loading EXCEPT !.setRules = TRUE]
  /\ UNCHANGED <<selectedBucket, selectedProject, contestRules, rulesEditMode,
                 processingStatus, validatedFiles, winners, flightStartDate,
                 flightEndDate, remoteRules>>
  /\ alertMsg' = NULL
  /\ Render(tasks \cup
            {[kind |-> "setRules", bucket |-> selectedBucket,
              project |-> selectedProject,
              rules |-> rulesWithFlightDates(formData), pc |-> "get"]})

\* setContestRules: await getContestRules(...); a document: update, a
\* rejection of any kind: create
SetRulesGetResolve(t) ==
  /\ t \in TasksOf("setRules") /\ t.pc = "get"
  /\ UNCHANGED <<selectedBucket, selectedProject, contestRules, rulesEditMode,
                 processingStatus, validatedFiles, winners, flightStartDate,
                 flightEndDate, loading, remoteRules>>
  /\ alertMsg' = NULL
  /\ \E answer \in GetContestRulesAnswers(t.bucket, t.project) :
       Render((tasks \ {t}) \cup
              {[t EXCEPT !.pc = IF answer.ok THEN "put" ELSE "post"]})

\* setRules after `await contestAPI.setContestRules(...)` resolved
SetRulesSucceeds(t) ==
  /\ contestRules' = t.rules
  /\ rulesEditMode' = FALSE
  /\ loading' = [loading EXCEPT !.setRules = FALSE]
  /\ alertMsg' = NULL

\* a catch block that also drops the cached rules
SetRulesFailsClearing(t, answer) ==
  /\ alertMsg' = [op |-> "setRules", ok |-> FALSE, status |-> answer.status]
  /\ loading' = [loading EXCEPT !.setRules = FALSE]
  /\ contestRules' = NULL
  /\ rulesEditMode' = TRUE

\* setRules after `await contestAPI.setContestRules(...)` rejected: the catch
\* block alerts, the finally block clears the loading flag
SetRulesFails(t, answer) ==
  /\ alertMsg' = [op |-> "setRules", ok |-> FALSE, status |-> answer.status]
  /\ loading' = [loading EXCEPT !.setRules = FALSE]
  /\ UNCHANGED <<contestRules, rulesEditMode>>

\* JSON.parse(JSON.stringify(rules)): what the remote receives as the body
\* of the request.  NaN is serialised as null.
JSONRoundTrip(rules) ==
  [rules EXCEPT !.total_winners = IF @ = NaN THEN NULL ELSE @]

\* the answer of the write request (PUT or POST) reaches setRules
SetRulesWriteResolve(t) ==
  /\ t \in TasksOf("setRules") /\ t.pc \in {"put", "post"}
  /\ UNCHANGED <<selectedBucket, selectedProject, processingStatus,
                 validatedFiles, winners, flightStartDate, flightEndDate>>
  /\ \E answer \in (IF t.pc = "put"
                    THEN UpdateContestRulesAnswers(t.bucket, t.project)
                    ELSE CreateContestRulesAnswers(t.bucket, t.project)) :
       IF answer.ok
       THEN /\ remoteRules' = [remoteRules EXCEPT ![<<t.bucket, t.project>>] =
                                  JSONRoundTrip(t.rules)]
            /\ SetRulesSucceeds(t)
       ELSE /\ UNCHANGED remoteRules
            /\ SetRulesFails(t, answer)
  /\ Render(tasks \ {t})

(***************************************************************************)
(* loadProjectData                                                         *)
(***************************************************************************)
\* what the caller of loadProjectData does when it returns: the effect and
\* pollStatus do nothing more; selectWinners reports success and clears its
\* loading flag
LoadProjectDataReturns(t) ==
  IF t.next = "selectWinners"
  THEN /\ alertMsg' = [op |-> "selectWinners", ok |-> TRUE, status |-> 200]
       /\ loading' = [loading EXCEPT !.selectWinners = FALSE]
  ELSE alertMsg' = NULL /\ UNCHANGED loading

\* await getProcessingStatus(...) inside its own try/catch (null on a
\* rejection), then the test of processingStatus?.status as the callback
\* captured it.  `answers`: what the endpoint may answer with.
LoadStatusResolve(t, answers) ==
  /\ t \in TasksOf("loadProjectData") /\ t.pc = "status"
  /\ \E status \in answers : processingStatus' = status
  /\ UNCHANGED <<selectedBucket, selectedProject, contestRules, rulesEditMode,
                 validatedFiles, winners, flightStartDate, flightEndDate,
                 loading, remoteRules>>
  /\ alertMsg' = NULL
  /\ Render((tasks \ {t}) \cup
            {[t EXCEPT !.pc = IF t.seen THEN "validated"
                              ELSE "winners"]})

\* await getValidatedEntries(...): the client returns the request's promise
\* without awaiting it, so a rejection reaches loadProjectData's outer catch
LoadValidatedResolve(t, answers) ==
  /\ t \in TasksOf("loadProjectData") /\ t.pc = "validated"
  /\ UNCHANGED <<selectedBucket, selectedProject, contestRules, rulesEditMode,
                 processingStatus, winners, flightStartDate, flightEndDate,
                 remoteRules>>
  /\ \/ /\ \E validated \in answers : validatedFiles' = validated
        /\ UNCHANGED <<loading>>
        /\ alertMsg' = NULL
        /\ Render((tasks \ {t}) \cup {[t EXCEPT !.pc = "winners"]})
     \/ /\ UNCHANGED validatedFiles
        /\ LoadProjectDataReturns(t)
        /\ Render(tasks \ {t})

\* getValidatedEntries resolves with the listing: setValidatedFiles(validated)
LoadValidatedStores(t, validated) ==
  /\ LoadValidatedResolve(t, {validated})
  /\ validatedFiles' = validated
  /\ \E u \in tasks' : u = [t EXCEPT !.pc = "winners"]

\* await getWinners(...) inside its own try/catch: [] on a rejection
LoadWinnersResolve(t, answers) ==
  /\ t \in TasksOf("loadProjectData") /\ t.pc = "winners"
  /\ \E winnerList \in answers : winners' = winnerList
  /\ LoadProjectDataReturns(t)
  /\ UNCHANGED <<selectedBucket, selectedProject, contestRules, rulesEditMode,
                 processingStatus, validatedFiles, flightStartDate,
                 flightEndDate, remoteRules>>
  /\ Render(tasks \ {t})

(***************************************************************************)
(* processData and its status poller                                       *)
(***************************************************************************)
\* a call of processData() of the current render.  The component renders no
\* control for it; canProcessData is the gate the component computes for it.
\* loadProjectData is the callback of the same render.
processData ==
  /\ canProcessData
  /\ loading' = [loading EXCEPT !.processData = TRUE]
  /\ UNCHANGED <<selectedBucket, selectedProject, contestRules, rulesEditMode,
                 processingStatus, validatedFiles, winners, flightStartDate,
                 flightEndDate, remoteRules>>
  /\ alertMsg' = NULL
  /\ Render(tasks \cup
            {[kind |-> "processData", bucket |-> selectedBucket,
              project |-> selectedProject,
              seen |-> StatusOf(processingStatus) = "completed",
              pc |-> "post"]})

\* `await contestAPI.processData(...)` settles.  Resolved: pollStatus() runs up
\* to its first await (the status request is sent) and is not awaited, so the
\* finally block clears the flag at once.  Rejected: alert, then finally.
ProcessDataPostResolve(t) ==
  /\ t \in TasksOf("processData") /\ t.pc = "post"
  /\ loading' = [loading EXCEPT !.processData = FALSE]
  /\ UNCHANGED <<selectedBucket, selectedProject, contestRules, rulesEditMode,
                 processingStatus, validatedFiles, winners, flightStartDate,
                 flightEndDate, remoteRules>>
  /\ \/ /\ alertMsg' = NULL
        /\ Render((tasks \ {t}) \cup {[t EXCEPT !.pc = "pollFetch"]})
     \/ /\ alertMsg' = [op |-> "processData", ok |-> FALSE, status |-> 500]
        /\ Render(tasks \ {t})

\* a pollStatus that schedules the next request whatever the status is
PollStatusNextAlways(t, status) == {[t EXCEPT !.pc = "pollWait"]}

\* what pollStatus does with a fetched status: poll again after the timeout,
\* reload the project data (with the callback processData captured), or end
PollStatusNext(t, status) ==
  IF status.status = "processing" THEN {[t EXCEPT !.pc = "pollWait"]}
  ELSE IF status.status = "completed"
       THEN {LoadTask(t.bucket, t.project, t.seen, "return")}
       ELSE {}

\* pollStatus: `await contestAPI.getProcessingStatus(...)` resolves with a
\* status, which is stored before anything else is decided
PollStatusResolve(t, status) ==
  /\ t \in TasksOf("processData") /\ t.pc = "pollFetch"
  /\ processingStatus' = status
  /\ UNCHANGED <<selectedBucket, selectedProject, contestRules, rulesEditMode,
                 validatedFiles, winners, flightStartDate, flightEndDate,
                 loading, remoteRules>>
  /\ alertMsg' = NULL
  /\ Render((tasks \ {t}) \cup PollStatusNext(t, status))

\* pollStatus: the status request is rejected.  The promise of pollStatus()
\* is neither awaited nor caught: the loop ends and no state is written.
PollStatusReject(t) ==
  /\ t \in TasksOf("processData") /\ t.pc = "pollFetch"
  /\ UNCHANGED <<selectedBucket, selectedProject, contestRules, rulesEditMode,
                 processingStatus, validatedFiles, winners, flightStartDate,
                 flightEndDate, loading, remoteRules>>
  /\ alertMsg' = NULL
  /\ Render(tasks \ {t})

\* setTimeout(pollStatus, 2000) fires: the next status request is sent
PollTimerFires(t) ==
  /\ t \in TasksOf("processData") /\ t.pc = "pollWait"
  /\ UNCHANGED <<selectedBucket, selectedProject, contestRules, rulesEditMode,
                 processingStatus, validatedFiles, winners, flightStartDate,
                 flightEndDate, loading, remoteRules>>
  /\ alertMsg' = NULL
  /\ Render((tasks \ {t}) \cup {[t EXCEPT !.pc = "pollFetch"]})

(***************************************************************************)
(* Winner Selection Gate                                                   *)
(***************************************************************************)
\* what the user may leave in the prompt: cancel (null), nothing, or text
PromptAnswers == {NULL} \cup {[text |-> s] : s \in {"", "2", "0", "abc"}}

\* parseInt on the texts above and on those of CountInputs
parseInt(text) ==
  CASE text = "1" -> Num(1)
    [] text = "2" -> Num(2)
    [] text = "0" -> Num(0)
    [] text = "-1" -> Num(-1)
    [] OTHER -> NaN

\* parseInt(prompt('Number of winners to select:') || '1')
numberOfWinners(answer) ==
  parseInt(IF answer = NULL THEN "1" ELSE OrElse(answer.text, "1"))

\* the "Select Winners" button, rendered only while canSelectWinners holds
\* and disabled while loading.selectWinners: selectWinners() up to its await
selectWinners(answer) ==
  /\ canSelectWinners /\ ~loading.selectWinners
  /\ loading' = [loading EXCEPT !.selectWinners = TRUE]
  /\ UNCHANGED <<selectedBucket, selectedProject, contestRules, rulesEditMode,
                 processingStatus, validatedFiles, winners, flightStartDate,
                 flightEndDate, remoteRules>>
  /\ alertMsg' = NULL
  /\ Render(tasks \cup
            {[kind |-> "selectWinners", bucket |-> selectedBucket,
              project |-> selectedProject,
              seen |-> StatusOf(processingStatus) = "completed",
              numberOfWinners |-> numberOfWinners(answer)]})

\* `await contestAPI.selectWinners(...)` rejected: alert, then finally
SelectWinnersFails(t) ==
  /\ alertMsg' = [op |-> "selectWinners", ok |-> FALSE, status |-> 500]
  /\ loading' = [loading EXCEPT !.selectWinners = FALSE]
  /\ UNCHANGED <<processingStatus, validatedFiles, winners>>

\* `await contestAPI.selectWinners(...)` settles: resolved, the full reload
\* `await loadProjectData()` starts
SelectWinnersResolve(t) ==
  /\ t \in TasksOf("selectWinners")
  /\ UNCHANGED <<selectedBucket, selectedProject, contestRules, rulesEditMode,
                 flightStartDate, flightEndDate, remoteRules>>
  /\ \/ /\ alertMsg' = NULL
        /\ UNCHANGED <<processingStatus, validatedFiles, winners,
                       loading>>
        /\ Render((tasks \ {t}) \cup
                  {LoadTask(t.bucket, t.project, t.seen, "selectWinners")})
     \/ /\ SelectWinnersFails(t)
        /\ Render(tasks \ {t})

(***************************************************************************)
(* Rule Validator & Builder: the winner rules list of ContestRulesForm     *)
(***************************************************************************)
\* what the user may leave in a count input
CountInputs == {"2", "-1", ""}

\* parseInt(e.target.value) || 0
countOf(text) == IF parseInt(text) = NaN THEN 0 ELSE parseInt(text).num

\* a step of the form alone: ContestManager does not re-render
FormStep ==
  UNCHANGED <<selectedBucket, selectedProject, contestRules, rulesEditMode,
              processingStatus, validatedFiles, winners, flightStartDate,
              flightEndDate, loading, tasks, remoteRules, listVars,
              loadingLists, modalVars, remoteListVars, rvVars, uploads,
              utasks>>

\* the rows of `rules` with the count of those whose id is `id` replaced
withCount(rules, id, count) ==
  [j \in 1..Len(rules) |->
     IF rules[j].id = id THEN [rules[j] EXCEPT !.count = count] ELSE rules[j]]

\* onChange of the count input of row i: updateWinnerRule(rule.id, 'count',
\* parseInt(e.target.value) || 0)
updateWinnerRule(i, text) ==
  /\ FormMounted
  /\ i \in 1..Len(formData.winner_rules)
  /\ formData' = [formData EXCEPT !.winner_rules =
                     withCount(@, formData.winner_rules[i].id, countOf(text))]
  /\ alertMsg' = NULL
  /\ FormStep

\* Date.now() of a click on "+ Add Another Rule": the clock has a resolution,
\* so two clicks may read the same value
DateNows == {DateNowBase + 1, DateNowBase + 2}

\* "+ Add Another Rule": a new row with count 1 and period 'day'
addWinnerRule ==
  /\ FormMounted
  /\ Len(formData.winner_rules) < MaxWinnerRules
  /\ \E now \in DateNows :
       formData' = [formData EXCEPT !.winner_rules =
                      Append(@, WinnerRule(now, 1))]
  /\ alertMsg' = NULL
  /\ FormStep

\* the rows of `rules` whose id is not `id`
withoutId(rules, id) == SelectSeq(rules, LAMBDA r : r.id # id)

\* the remove button of row i, rendered while the list has more than one
\* row: removeWinnerRule(rule.id)
removeWinnerRule(i) ==
  /\ FormMounted
  /\ i \in 1..Len(formData.winner_rules)
  /\ Len(formData.winner_rules) > 1
  /\ formData' = [formData EXCEPT !.winner_rules =
                     withoutId(@, formData.winner_rules[i].id)]
  /\ alertMsg' = NULL
  /\ FormStep

\* what the user may leave in the total winners input
TotalWinnersInputs == {"2", ""}

\* onChange of the total winners input: parseInt(e.target.value)
setTotalWinners(text) ==
  /\ FormMounted
  /\ formData' = [formData EXCEPT !.total_winners = parseInt(text)]
  /\ formData' # formData
  /\ alertMsg' = NULL
  /\ FormStep

(***************************************************************************)
(* Rule Validator & Builder: the eligible states of ContestRulesForm       *)
(***************************************************************************)
\* currentStates.includes(stateCode)
includes(states, code) == \E j \in 1..Len(states) : states[j] = code

\* a list left as it is, duplicates included
keepDuplicates(states) == states

\* Array.from(new Set(states)): the first occurrence of every element
dedupe(states) ==
  LET keep(j) == \A k \in 1..(j - 1) : states[k] # states[j]
      kept == {j \in 1..Len(states) : keep(j)}
      rank(j) == Cardinality({k \in kept : k <= j})
  IN [n \in 1..Cardinality(kept) |->
        states[CHOOSE j \in kept : rank(j) = n]]

\* the codes of the table whose timezone is `timezone`, in table order
statesInTimezone(timezone) ==
  SelectSeq(AllStates, LAMBDA code : timezoneOf(code) = timezone)

\* a "Select All" that adds the table to the selection
selectAllAppending(data) ==
  [data EXCEPT !.eligible_states = @ \o AllStates]

\* the draft selectAllStates leaves
selectAll(data) == [data EXCEPT !.eligible_states = AllStates]

\* the draft deselectAllStates leaves
deselectAll(data) == [data EXCEPT !.eligible_states = << >>]

\* TIMEZONE_NAMES[tz]
TIMEZONE_NAMES(tz) ==
  CASE tz = "ET" -> "Eastern Time"
    [] tz = "CT" -> "Central Time"
    [] tz = "MT" -> "Mountain Time"
    [] tz = "PT" -> "Pacific Time"
    [] tz = "AKT" -> "Alaska Time"
    [] tz = "HT" -> "Hawaii Time"

\* Array.from(timezones).sort(): the timezones of a set in the order of
\* their code units
sortTimezones(timezones) ==
  SelectSeq(<<"AKT", "CT", "ET", "HT", "MT", "PT">>,
            LAMBDA tz : tz \in timezones)

\* one tag for every state of the table among `states`
timezonesWithRepeats(states) ==
  LET known == SelectSeq(states, LAMBDA code : code \in
                           {AllStates[j] : j \in 1..Len(AllStates)})
  IN [j \in 1..Len(known) |-> TIMEZONE_NAMES(timezoneOf(known[j]))]

\* getSelectedTimezones() of the form and the tags it is rendered as: a
\* state without an entry in the table adds nothing to the Set
getSelectedTimezones(states) ==
  LET timezones ==
        {timezoneOf(states[j]) :
           j \in {k \in 1..Len(states) :
                    \E n \in 1..Len(AllStates) : AllStates[n] = states[k]}}
      sorted == sortTimezones(timezones)
  IN [j \in 1..Len(sorted) |-> TIMEZONE_NAMES(sorted[j])]

\* the "Contest Timezones" tags of the saved display
savedDisplayTimezones(states) ==
  LET timezones ==
        {timezoneOf(states[j]) :
           j \in {k \in 1..Len(states) :
                    \E n \in 1..Len(AllStates) : AllStates[n] = states[k]}}
      sorted == sortTimezones(timezones)
  IN [j \in 1..Len(sorted) |-> TIMEZONE_NAMES(sorted[j])]

\* the "Select All" button
selectAllStates ==
  /\ FormMounted
  /\ formData' = selectAll(formData)
  /\ alertMsg' = NULL
  /\ FormStep

\* the "Deselect All" button
deselectAllStates ==
  /\ FormMounted
  /\ formData' = deselectAll(formData)
  /\ alertMsg' = NULL
  /\ FormStep

\* the checkbox of a state
handleStateToggle(stateCode) ==
  /\ FormMounted
  /\ formData' = [formData EXCEPT !.eligible_states =
                     IF includes(@, stateCode)
                     THEN SelectSeq(@, LAMBDA c : c # stateCode)
                     ELSE Append(@, stateCode)]
  /\ alertMsg' = NULL
  /\ FormStep

\* the button of a timezone: its states are added to the selection
selectStatesByTimezone(timezone) ==
  /\ FormMounted
  /\ formData' = [formData EXCEPT !.eligible_states =
                     dedupe(@ \o statesInTimezone(timezone))]
  /\ alertMsg' = NULL
  /\ FormStep

(***************************************************************************)
(* Option lists: loadBuckets, loadProjects                                 *)
(***************************************************************************)
\* the HTTP statuses the gateway answers a list request with
Statuses == {200, 304, 404, 500}

\* request(): the one fetch of a call has been answered by `response`; a
\* response that is not ok (response.ok: a status from 200 to 299) throws
\* `API Error: ${status} ${statusText}`, any other returns the body
request(response) ==
  IF response.status \notin 200..299
  THEN [ok |-> FALSE, status |-> response.status]
  ELSE [ok |-> TRUE, list |-> response.body]

\* listS3Buckets / listProjects: request() on a response of any status
\* that holds the remote list
ListAnswers(list) ==
  {request([status |-> status, body |-> list]) : status \in Statuses}

\* loadBuckets after its await: the list, or [] and errors.buckets
LoadBucketsResolve(answers) ==
  /\ [kind |-> "loadBuckets"] \in tasks
  /\ \E answer \in answers :
       IF answer.ok
       THEN buckets' = answer.list /\ UNCHANGED errors
       ELSE /\ buckets' = << >>
            /\ errors' = [errors EXCEPT
                            !.buckets = [message |-> "Failed to load client buckets"]]
  /\ UNCHANGED <<selectedBucket, selectedProject, contestRules, rulesEditMode,
                 processingStatus, validatedFiles, winners, flightStartDate,
                 flightEndDate, loading, remoteRules, projects, modalVars,
                 remoteListVars>>
  /\ alertMsg' = NULL
  /\ RenderCore(tasks \ {[kind |-> "loadBuckets"]},
                [loadingLists EXCEPT !.buckets = FALSE])

\* loadProjects after its await: the list, or []
LoadProjectsResolve(answers) ==
  /\ LoadProjectsTask \in tasks
  /\ \E answer \in answers :
       projects' = IF answer.ok THEN answer.list ELSE << >>
  /\ UNCHANGED <<selectedBucket, selectedProject, contestRules, rulesEditMode,
                 processingStatus, validatedFiles, winners, flightStartDate,
                 flightEndDate, loading, remoteRules, buckets, errors,
                 modalVars, remoteListVars>>
  /\ alertMsg' = NULL
  /\ RenderCore(tasks \ {LoadProjectsTask},
                [loadingLists EXCEPT !.projects = FALSE])

(***************************************************************************)
(* Provisioning Sequencer: the create modal and createNewBucket            *)
(***************************************************************************)
\* /^[a-z0-9-]+$/.test(name) && name.length > 0, on the names the client
\* name input can hold
isValidClientName(name) == name \in {"acme", "acme123"}

\* /^[0-9]+$/.test(handle) && handle.length > 0, on the handles the project
\* handle input can hold
isValidProjectHandle(handle) == handle \in {"7"}

isValidDateRange ==
  /\ Truthy(flightStartDate) /\ Truthy(flightEndDate)
  /\ DateGT(flightEndDate, flightStartDate)

getFullBucketName == "sweepstakes-" \o clientName

\* "+ New Client" and "+ New Project" (disabled while no client is selected)
openCreateModal(type) ==
  /\ type = "project" => Truthy(selectedBucket)
  /\ modalType' = type
  /\ showCreateModal' = TRUE
  /\ clientName' = ""
  /\ projectHandle' = ""
  /\ flightStartDate' = ""
  /\ flightEndDate' = ""
  /\ createStatus' = "idle"
  /\ UNCHANGED <<selectedBucket, selectedProject, contestRules, rulesEditMode,
                 processingStatus, validatedFiles, winners, loading,
                 remoteRules, listVars, createdBucketName, remoteListVars>>
  /\ alertMsg' = NULL
  /\ RenderCore(tasks, loadingLists)

\* the overlay and the close button of the modal
closeCreateModal ==
  /\ showCreateModal
  /\ createStatus # "creating"
  /\ showCreateModal' = FALSE
  /\ clientName' = ""
  /\ projectHandle' = ""
  /\ flightStartDate' = ""
  /\ flightEndDate' = ""
  /\ createStatus' = "idle"
  /\ UNCHANGED <<selectedBucket, selectedProject, contestRules, rulesEditMode,
                 processingStatus, validatedFiles, winners, loading,
                 remoteRules, listVars, modalType, createdBucketName,
                 remoteListVars>>
  /\ alertMsg' = NULL
  /\ RenderCore(tasks, loadingLists)

\* the inputs of the modal are rendered while createStatus is 'idle'
ModalInputsShown == showCreateModal /\ createStatus = "idle"

handleClientNameChange(raw) ==
  /\ ModalInputsShown /\ modalType = "client"
  /\ clientName' = NormalizeClientName(raw)
  /\ UNCHANGED <<selectedBucket, selectedProject, contestRules, rulesEditMode,
                 processingStatus, validatedFiles, winners, flightStartDate,
                 flightEndDate, loading, remoteRules, listVars,
                 showCreateModal, modalType, projectHandle, createStatus,
                 createdBucketName, remoteListVars>>
  /\ alertMsg' = NULL
  /\ RenderCore(tasks, loadingLists)

handleProjectHandleChange(raw) ==
  /\ ModalInputsShown
  /\ projectHandle' = NormalizeProjectHandle(raw)
  /\ UNCHANGED <<selectedBucket, selectedProject, contestRules, rulesEditMode,
                 processingStatus, validatedFiles, winners, flightStartDate,
                 flightEndDate, loading, remoteRules, listVars,
                 showCreateModal, modalType, clientName, createStatus,
                 createdBucketName, remoteListVars>>
  /\ alertMsg' = NULL
  /\ RenderCore(tasks, loadingLists)

\* the two date inputs of the modal
setFlightStartDate(value) ==
  /\ ModalInputsShown
  /\ value # flightStartDate
  /\ flightStartDate' = value
  /\ UNCHANGED <<selectedBucket, selectedProject, contestRules, rulesEditMode,
                 processingStatus, validatedFiles, winners, flightEndDate,
                 loading, remoteRules, listVars, modalVars, remoteListVars>>
  /\ alertMsg' = NULL
  /\ RenderCore(tasks, loadingLists)

setFlightEndDate(value) ==
  /\ ModalInputsShown
  /\ value # flightEndDate
  /\ flightEndDate' = value
  /\ UNCHANGED <<selectedBucket, selectedProject, contestRules, rulesEditMode,
                 processingStatus, validatedFiles, winners, flightStartDate,
                 loading, remoteRules, listVars, modalVars, remoteListVars>>
  /\ alertMsg' = NULL
  /\ RenderCore(tasks, loadingLists)

\* disabled={...} of the modal's submit button
CreateButtonDisabled ==
  IF modalType = "client"
  THEN \/ ~Truthy(clientName) \/ ~isValidClientName(clientName)
       \/ ~Truthy(projectHandle) \/ ~isValidProjectHandle(projectHandle)
       \/ ~Truthy(flightStartDate) \/ ~Truthy(flightEndDate)
       \/ ~isValidDateRange
  ELSE \/ ~Truthy(projectHandle) \/ ~isValidProjectHandle(projectHandle)
       \/ ~Truthy(flightStartDate) \/ ~Truthy(flightEndDate)
       \/ ~isValidDateRange

\* the test createNewBucket() starts with: it returns at once when it holds
createNewBucketReturns ==
  \/ ~Truthy(clientName) \/ ~isValidClientName(clientName)
  \/ ~Truthy(projectHandle) \/ ~isValidProjectHandle(projectHandle)

\* createNewBucket() up to its await
createNewBucket ==
  /\ ~createNewBucketReturns
  /\ createStatus' = "creating"
  /\ UNCHANGED <<selectedBucket, selectedProject, contestRules, rulesEditMode,
                 processingStatus, validatedFiles, winners, flightStartDate,
                 flightEndDate, loading, remoteRules, listVars,
                 showCreateModal, modalType, clientName, projectHandle,
                 createdBucketName, remoteListVars>>
  /\ alertMsg' = NULL
  /\ RenderCore(tasks \cup
                {[kind |-> "createNewBucket",
                  fullBucketName |-> getFullBucketName,
                  projectName |-> "project-" \o padStart4(projectHandle),
                  flightStartDate |-> flightStartDate \o "T00:00:00",
                  flightEndDate |-> flightEndDate \o "T23:59:59",
                  pc |-> "post"]},
                loadingLists)

\* onClick of the submit button
CreateButtonClick ==
  /\ ModalInputsShown /\ ~CreateButtonDisabled
  /\ createNewBucket

\* onKeyPress of the project handle input: Enter
CreateEnterKey ==
  /\ ModalInputsShown
  /\ createNewBucket

\* a merge that appends without looking for the name
AppendAlways(list, name) == Append(list, name)

\* a list with `name` appended unless it holds it
AppendNew(list, name) ==
  IF name \in Range(list) THEN list ELSE Append(list, name)

\* `await contestAPI.createS3Bucket(...)` resolved: the 2 s timer is set
CreateBucketSucceeds(t) ==
  /\ createdBucketName' = t.fullBucketName
  /\ createStatus' = "success"
  /\ remoteBuckets' = AppendNew(remoteBuckets, t.fullBucketName)
  /\ remoteProjects' = AppendNew(remoteProjects, t.projectName)
  /\ UNCHANGED <<selectedBucket, selectedProject, contestRules, rulesEditMode,
                 processingStatus, validatedFiles, winners, flightStartDate,
                 flightEndDate, loading, remoteRules, listVars,
                 showCreateModal, modalType, clientName, projectHandle>>
  /\ alertMsg' = NULL
  /\ RenderCore((tasks \ {t}) \cup {[t EXCEPT !.pc = "successDelay"]},
                loadingLists)

\* `await contestAPI.createS3Bucket(...)` rejected: the 3 s timer is set
CreateBucketFails(t) ==
  /\ createStatus' = "error"
  /\ UNCHANGED <<selectedBucket, selectedProject, contestRules, rulesEditMode,
                 processingStatus, validatedFiles, winners, flightStartDate,
                 flightEndDate, loading, remoteRules, listVars,
                 showCreateModal, modalType, clientName, projectHandle,
                 createdBucketName, remoteListVars>>
  /\ alertMsg' = NULL
  /\ RenderCore((tasks \ {t}) \cup {[t EXCEPT !.pc = "errorDelay"]},
                loadingLists)

CreateBucketResolve(t) ==
  /\ t \in TasksOf("createNewBucket") /\ t.pc = "post"
  /\ CreateBucketSucceeds(t) \/ CreateBucketFails(t)

\* the 2 s timer after a success: merge, select, close, reset (one render:
\* the setters of one callback are batched)
CreateSuccessTimerFires(t) ==
  /\ t \in TasksOf("createNewBucket") /\ t.pc = "successDelay"
  /\ buckets' = AppendNew(buckets, t.fullBucketName)
  /\ selectedBucket' = t.fullBucketName
  /\ projects' = <<t.projectName>>
  /\ selectedProject' = t.projectName
  /\ showCreateModal' = FALSE
  /\ clientName' = ""
  /\ projectHandle' = ""
  /\ createStatus' = "idle"
  /\ createdBucketName' = ""
  /\ UNCHANGED <<contestRules, rulesEditMode, processingStatus,
                 validatedFiles, winners, flightStartDate, flightEndDate,
                 loading, remoteRules, errors, modalType, remoteListVars>>
  /\ alertMsg' = NULL
  /\ RenderCore(tasks \ {t}, loadingLists)

\* the 3 s timer after a failure
CreateErrorTimerFires(t) ==
  /\ t \in TasksOf("createNewBucket") /\ t.pc = "errorDelay"
  /\ createStatus' = "idle"
  /\ UNCHANGED <<selectedBucket, selectedProject, contestRules, rulesEditMode,
                 processingStatus, validatedFiles, winners, flightStartDate,
                 flightEndDate, loading, remoteRules, listVars,
                 showCreateModal, modalType, clientName, projectHandle,
                 createdBucketName, remoteListVars>>
  /\ alertMsg' = NULL
  /\ RenderCore(tasks \ {t}, loadingLists)

(***************************************************************************)
(* ReceiptValidation: summary loading, ZIP upload, result poller           *)
(***************************************************************************)
\* the state of ContestManager, which no step of ReceiptValidation touches
cmVars == <<mgrVars, listVars, loadingLists, modalVars, remoteListVars>>

\* the selections the parent passes as props: none, or one of two projects
ReceiptSelections ==
  {[selectedBucket |-> "", selectedProject |-> ""],
   [selectedBucket |-> "b1", selectedProject |-> "p1"],
   [selectedBucket |-> "b1", selectedProject |-> "p2"]}

\* const maxAttempts = 60 of pollForResults
maxAttempts == 60

\* `${selectedProject}/receipts/results/summary_latest.json`
summaryKey(project) == project \o "/receipts/results/summary_latest.json"

\* the summary document stored in `bucket` under `key`
SummaryAt(bucket, key) == [bucket |-> bucket, key |-> key]

\* file.name.toLowerCase().endsWith('.zip') on the names of FileNames
FileNames == {"receipts.zip", "RECEIPTS.ZIP", "notes.txt"}
toLowerCase(name) == IF name = "RECEIPTS.ZIP" THEN "receipts.zip" ELSE name
\* a test that lets every file name pass
endsWithAnything(name) == name \in FileNames
endsWithZip(name) == name \in {"receipts.zip"}

\* a call of loadSummary() with the props of the render that created it;
\* poller: 0 when the effect called it, else the poller whose tick did;
\* slot: which of the MaxSummaryReads concurrently pending reads it is
LoadSummaryTask(b, p, poller, slot) ==
  [kind |-> "loadSummary", bucket |-> b, project |-> p, poller |-> poller,
   slot |-> slot]

SummaryReads(ts) == {t \in ts : t.kind = "loadSummary"}

FreeSlots == (1..MaxSummaryReads) \ {t.slot : t \in SummaryReads(rtasks)}

\* the lowest free slot
FreeSlot == CHOOSE n \in FreeSlots : \A m \in FreeSlots : n <= m

\* useEffect(..., [selectedBucket, selectedProject]) of the render after the
\* parent passed new props
SummaryEffect ==
  IF props' # props /\ Truthy(props'.selectedBucket)
                    /\ Truthy(props'.selectedProject)
  THEN {LoadSummaryTask(props'.selectedBucket, props'.selectedProject, 0,
                        FreeSlot)}
  ELSE {}

\* a call of loadKeywordFromRules() with the props of the render that
\* created it
LoadKeywordTask(b, p) ==
  [kind |-> "loadKeywordFromRules", bucket |-> b, project |-> p]

\* what the saved rules of a project hold in receipt_product_keyword and
\* required_products: p1 has the keyword, p2 only the legacy list
savedKeywordFields(project) ==
  IF project = "p1"
  THEN [receipt_product_keyword |-> "cola", required_products |-> << >>]
  ELSE [receipt_product_keyword |-> "",
        required_products |-> <<"chips", "salsa">>]

\* the keyword loadKeywordFromRules takes from `rules`, `current` if it
\* finds none
keywordFromRules(rules, current) ==
  IF Truthy(rules.receipt_product_keyword)
  THEN rules.receipt_product_keyword
  ELSE IF Len(rules.required_products) > 0
       THEN rules.required_products[1]
       ELSE current

\* getContestRules answers a call of loadKeywordFromRules
LoadKeywordResolve(t) ==
  /\ t \in rtasks /\ t.kind = "loadKeywordFromRules"
  /\ keyword' = keywordFromRules(savedKeywordFields(t.project), keyword)
  /\ rtasks' = rtasks \ {t}
  /\ UNCHANGED <<props, summary, uploading, processing, error, pollers,
                 cmVars, uploads,
                 utasks>>

\* getContestRules rejects: the catch block of loadKeywordFromRules only
\* warns on the console
LoadKeywordFails(t) ==
  /\ t \in rtasks /\ t.kind = "loadKeywordFromRules"
  /\ rtasks' = rtasks \ {t}
  /\ UNCHANGED <<props, summary, uploading, processing, error, pollers,
                 keyword, cmVars, uploads,
                 utasks>>

\* the parent re-renders the component with another selection; the effect
\* calls loadKeywordFromRules() after loadSummary()
SetProps(selection) ==
  /\ props' = selection
  /\ props' # props
  /\ FreeSlots # {}
  /\ rtasks' = rtasks \cup SummaryEffect \cup
       (IF SummaryEffect # {}
        THEN {LoadKeywordTask(props'.selectedBucket, props'.selectedProject)}
        ELSE {})
  /\ UNCHANGED <<summary, uploading, processing, error, pollers, keyword, cmVars, uploads,
                 utasks>>

\* the end of a poller's tick, after `await loadSummary()`: `seen` is the
\* summary of the render that called pollForResults, attempts the counter
\* all ticks of the poller share
PollTickEnds(i) ==
  IF pollers[i].seen \/ pollers[i].attempts >= maxAttempts
  THEN /\ pollers' = [pollers EXCEPT ![i].active = FALSE]
       /\ uploading' = FALSE
       /\ processing' = FALSE
  ELSE UNCHANGED <<pollers, uploading, processing>>

\* getS3Object settles for a call of loadSummary: the document is stored as
\* the summary, a rejection stores null; loadSummary itself never rejects.
\* `found`: whether the object may exist, whether it may be missing.
LoadSummaryResolve(t, found) ==
  /\ t \in SummaryReads(rtasks)
  /\ \E f \in found :
       summary' = IF f THEN SummaryAt(t.bucket, summaryKey(t.project))
                  ELSE NULL
  /\ IF t.poller = 0
     THEN UNCHANGED <<pollers, uploading, processing>>
     ELSE PollTickEnds(t.poller)
  /\ rtasks' = rtasks \ {t}
  /\ UNCHANGED <<props, error, keyword, cmVars, uploads,
                 utasks>>

\* the file input (rendered once both props are set, disabled while
\* uploading or processing): handleZipUpload up to its first await, in a
\* session of at most `cap` uploads
handleZipUploadUpTo(name, cap) ==
  /\ Truthy(props.selectedBucket) /\ Truthy(props.selectedProject)
  /\ ~(uploading \/ processing)
  /\ IF ~endsWithZip(toLowerCase(name))
     THEN /\ error' = [message |-> "Please upload a ZIP file"]
          /\ UNCHANGED <<uploading, rtasks>>
     ELSE /\ Len(pollers) + Cardinality({t \in rtasks : t.kind = "handleZipUpload"})
               < cap
          /\ uploading' = TRUE
          /\ error' = NULL
          /\ rtasks' = rtasks \cup
               {[kind |-> "handleZipUpload", bucket |-> props.selectedBucket,
                 project |-> props.selectedProject,
                 seen |-> summary # NULL, pc |-> "presign"]}
  /\ UNCHANGED <<props, summary, processing, pollers, keyword, cmVars, uploads,
                 utasks>>

handleZipUpload(name) == handleZipUploadUpTo(name, MaxUploads)

\* the catch block of handleZipUpload
UploadFails(t) ==
  /\ error' = [message |-> "Upload failed"]
  /\ uploading' = FALSE
  /\ rtasks' = rtasks \ {t}
  /\ UNCHANGED <<processing, pollers>>

\* the presign request settles
UploadPresignResolve(t) ==
  /\ t \in rtasks /\ t.kind = "handleZipUpload" /\ t.pc = "presign"
  /\ \/ /\ rtasks' = (rtasks \ {t}) \cup {[t EXCEPT !.pc = "upload"]}
        /\ UNCHANGED <<uploading, processing, error, pollers>>
     \/ UploadFails(t)
  /\ UNCHANGED <<props, summary, keyword, cmVars, uploads,
                 utasks>>

\* the upload request settles: setProcessing(true); pollForResults() sets
\* the interval with attempts = 0
UploadPutResolve(t) ==
  /\ t \in rtasks /\ t.kind = "handleZipUpload" /\ t.pc = "upload"
  /\ \/ /\ processing' = TRUE
        /\ pollers' = Append(pollers,
                             [active |-> TRUE, attempts |-> 0, seen |-> t.seen,
                              bucket |-> t.bucket, project |-> t.project])
        /\ rtasks' = rtasks \ {t}
        /\ UNCHANGED <<uploading, error>>
     \/ UploadFails(t)
  /\ UNCHANGED <<props, summary, keyword, cmVars, uploads,
                 utasks>>

\* the interval of poller i fires: attempts++, loadSummary() is called.  The
\* interval does not wait for the callback of an earlier tick.
PollTick(i) ==
  /\ i \in 1..Len(pollers) /\ pollers[i].active
  /\ FreeSlots # {}
  /\ pollers' = [pollers EXCEPT ![i].attempts = @ + 1]
  /\ rtasks' = rtasks \cup
       {LoadSummaryTask(pollers[i].bucket, pollers[i].project, i, FreeSlot)}
  /\ UNCHANGED <<props, summary, uploading, processing, error, keyword, cmVars, uploads,
                 utasks>>

\* the dismiss button of the error banner
DismissError ==
  /\ error # NULL
  /\ error' = NULL
  /\ UNCHANGED <<props, summary, uploading, processing, pollers, rtasks,
                 keyword, cmVars, uploads,
                 utasks>>

(***************************************************************************)
(* FileUpload: validation, presigned upload, the uploads list              *)
(***************************************************************************)
\* the bound on the entries of the uploads list
MaxFileUploads == 3

\* maxFileSize = 50 * 1024 * 1024
maxFileSize == 52428800

\* validateFile: the error message for a file, null for a file that passes.
\* extension is '.' + file.name.split('.').pop()?.toLowerCase()
validateFile(file) ==
  LET extension == CASE file.name = "entries.csv" -> ".csv"
                     [] file.name = "DATA.JSON" -> ".json"
                     [] file.name = "notes.txt" -> ".txt"
  IN IF file.size > maxFileSize
     THEN [message |-> "File size exceeds 50MB limit"]
     ELSE IF extension \notin {".json", ".csv", ".xlsx", ".zip"}
          THEN [message |-> "File type not supported"]
          ELSE NULL

\* prev.map(upload => upload.fileName === file.name ? {...upload, status}
\*                                                  : upload)
withStatus(list, fileName, status) ==
  [j \in 1..Len(list) |->
     IF list[j].fileName = fileName THEN [list[j] EXCEPT !.status = status]
     ELSE list[j]]

\* uploadFile(file) up to its first await, on the list and the pending calls
\* `st`: the entry is appended; a file that fails validation goes to the
\* catch block at once, any other waits for the presign request.  `entry` is
\* the position of the entry the call appended.
uploadFile(st, file) ==
  LET appended == Append(st.uploads,
                         [fileName |-> file.name, status |-> "uploading"])
  IN IF validateFile(file) # NULL
     THEN [uploads |-> withStatus(appended, file.name, "error"),
           utasks |-> st.utasks]
     ELSE [uploads |-> appended,
           utasks |-> st.utasks \cup
                        {[entry |-> Len(appended), fileName |-> file.name,
                          pc |-> "presign"]}]

\* handleFileSelect(files): Array.from(files).forEach(uploadFile)
handleFileSelect(files) ==
  /\ Len(files) > 0
  /\ Len(uploads) + Len(files) <= MaxFileUploads
  /\ LET RECURSIVE forEach(_, _)
         forEach(st, n) == IF n > Len(files) THEN st
                           ELSE forEach(uploadFile(st, files[n]), n + 1)
         after == forEach([uploads |-> uploads, utasks |-> utasks], 1)
     IN /\ uploads' = after.uploads
        /\ utasks' = after.utasks
  /\ UNCHANGED <<cmVars, rvVars>>

\* a request of a call of uploadFile settles: the presign request resolves
\* and the PUT is sent; the PUT resolves with an ok response; or the request
\* is rejected, or the PUT response is not ok, and the catch block runs
FileRequestSettles(t) ==
  /\ t \in utasks
  /\ \/ /\ t.pc = "presign"
        /\ utasks' = (utasks \ {t}) \cup {[t EXCEPT !.pc = "put"]}
        /\ UNCHANGED uploads
     \/ /\ t.pc = "put"
        /\ uploads' = withStatus(uploads, t.fileName, "completed")
        /\ utasks' = utasks \ {t}
     \/ /\ uploads' = withStatus(uploads, t.fileName, "error")
        /\ utasks' = utasks \ {t}
  /\ UNCHANGED <<cmVars, rvVars>>

(***************************************************************************)
(* Specifications                                                          *)
(***************************************************************************)
\* what the data endpoints answer for a project no processing has run on:
\* no status document (the read is rejected), no winners
FreshStatusAnswers == {NULL}
FreshWinnerAnswers == {<< >>}

\* the pending reads of loadProjectData, for a project without processing data
LoadProjectDataFresh ==
  \E t \in tasks :
    \/ LoadStatusResolve(t, FreshStatusAnswers)
    \/ LoadWinnersResolve(t, FreshWinnerAnswers)

Next ==
  \/ LoadBucketsResolve({[ok |-> TRUE, list |-> remoteBuckets]})
  \/ LoadProjectsResolve({[ok |-> TRUE, list |-> remoteProjects]})
  \/ \E b \in Buckets \cup {""} : SelectClient(b)
  \/ RemoveClient
  \/ \E p \in ProjectNames \cup {""} : SelectProject(p)
  \/ \E t \in tasks : CheckExistingRulesResolve(t)
  \/ LoadProjectDataFresh
  \/ EditRules
  \/ handleSubmit
  \/ \E t \in tasks : SetRulesGetResolve(t)
  \/ \E t \in tasks : SetRulesWriteResolve(t)

Spec == Init /\ [][Next]_vars

\* one status document for each branch of pollStatus
PollAnswers ==
  {[status |-> "processing", eligible_contestants |-> 0],
   [status |-> "completed", eligible_contestants |-> 1],
   [status |-> "error", eligible_contestants |-> 0]}

\* the pending reads of loadProjectData: no winners drawn yet
LoadProjectDataProcessing ==
  \E t \in tasks :
    \/ LoadStatusResolve(t, PollAnswers)
    \/ LoadValidatedResolve(t, {<<"validated.json">>})
    \/ LoadWinnersResolve(t, FreshWinnerAnswers)

\* Processing workflow: selection, data processing with its status poller;
\* the rules are only read
NextProcessing ==
  \/ LoadBucketsResolve({[ok |-> TRUE, list |-> remoteBuckets]})
  \/ LoadProjectsResolve({[ok |-> TRUE, list |-> remoteProjects]})
  \/ \E b \in Buckets : SelectClient(b)
  \/ RemoveClient
  \/ \E p \in ProjectNames : SelectProject(p)
  \/ \E t \in tasks : CheckExistingRulesResolve(t)
  \/ LoadProjectDataProcessing
  \/ processData
  \/ \E t \in tasks : ProcessDataPostResolve(t)
  \/ \E t \in tasks, status \in PollAnswers : PollStatusResolve(t, status)
  \/ \E t \in tasks : PollStatusReject(t)
  \/ \E t \in tasks : PollTimerFires(t)

SpecProcessing == InitWith(UniformStore, TwoBuckets) /\ [][NextProcessing]_vars

\* Data processing of one project: processData with its status poller
NextPolling ==
  \/ LoadBucketsResolve({[ok |-> TRUE, list |-> remoteBuckets]})
  \/ LoadProjectsResolve({[ok |-> TRUE, list |-> remoteProjects]})
  \/ SelectClient("b1")
  \/ SelectProject("p1")
  \/ \E t \in tasks : CheckExistingRulesResolve(t)
  \/ LoadProjectDataProcessing
  \/ processData
  \/ \E t \in tasks : ProcessDataPostResolve(t)
  \/ \E t \in tasks, status \in PollAnswers : PollStatusResolve(t, status)
  \/ \E t \in tasks : PollStatusReject(t)
  \/ \E t \in tasks : PollTimerFires(t)

SpecPolling == InitWith(UniformStore, OneBucket) /\ [][NextPolling]_vars

\* status answers deciding the winner gate: none, not completed, completed
\* with nobody eligible, completed with somebody eligible
GateAnswers ==
  {NULL,
   [status |-> "processing", eligible_contestants |-> 1],
   [status |-> "completed", eligible_contestants |-> 0],
   [status |-> "completed", eligible_contestants |-> 1]}

\* the pending reads of loadProjectData in the winner workflow
LoadProjectDataAny ==
  \E t \in tasks :
    \/ LoadStatusResolve(t, GateAnswers)
    \/ LoadValidatedResolve(t, FileLists)
    \/ LoadWinnersResolve(t, WinnerLists)

\* Winner workflow: selection, winner selection on processed data
NextWinners ==
  \/ LoadBucketsResolve({[ok |-> TRUE, list |-> remoteBuckets]})
  \/ LoadProjectsResolve({[ok |-> TRUE, list |-> remoteProjects]})
  \/ \E b \in {"b1", ""} : SelectClient(b)
  \/ RemoveClient
  \/ \E p \in ProjectNames \cup {""} : SelectProject(p)
  \/ \E t \in tasks : CheckExistingRulesResolve(t)
  \/ LoadProjectDataAny
  \/ \E answer \in PromptAnswers : selectWinners(answer)
  \/ \E t \in tasks : SelectWinnersResolve(t)

SpecWinners == InitWith(EmptyStore, OneBucket) /\ [][NextWinners]_vars

\* ReceiptValidation; `found`: what a summary read may find
NextReceiptWith(found) ==
  \/ \E selection \in ReceiptSelections : SetProps(selection)
  \/ \E t \in rtasks : LoadSummaryResolve(t, found)
  \/ \E name \in FileNames : handleZipUpload(name)
  \/ \E t \in rtasks : UploadPresignResolve(t)
  \/ \E t \in rtasks : UploadPutResolve(t)
  \/ \E i \in 1..MaxUploads : PollTick(i)
  \/ DismissError

\* a summary read finds the stored summary or none
NextReceipt == NextReceiptWith(BOOLEAN)

SpecReceipt == Init /\ [][NextReceipt]_vars

\* the processing never produces a summary: every read is rejected
NextReceiptNoSummary == NextReceiptWith({FALSE})

SpecReceiptNoSummary == Init /\ [][NextReceiptNoSummary]_vars

\* One selected project whose summary reads find the stored summary or none:
\* the file input with every kind of file name
NextUpload ==
  \/ SetProps([selectedBucket |-> "b1", selectedProject |-> "p1"])
  \/ \E t \in rtasks : LoadKeywordResolve(t)
  \/ \E t \in rtasks : LoadKeywordFails(t)
  \/ \E t \in rtasks : LoadSummaryResolve(t, BOOLEAN)
  \/ \E name \in FileNames : handleZipUpload(name)
  \/ \E t \in rtasks : UploadPresignResolve(t)
  \/ \E t \in rtasks : UploadPutResolve(t)
  \/ \E i \in 1..MaxUploads : PollTick(i)
  \/ DismissError

SpecUpload == Init /\ [][NextUpload]_vars

\* The file input of one selected project; of the pollers the uploads start,
\* the first one ticks
NextFileInput ==
  \/ SetProps([selectedBucket |-> "b1", selectedProject |-> "p1"])
  \/ \E t \in rtasks : LoadSummaryResolve(t, BOOLEAN)
  \/ \E name \in FileNames : handleZipUpload(name)
  \/ \E t \in rtasks : UploadPresignResolve(t)
  \/ \E t \in rtasks : UploadPutResolve(t)
  \/ PollTick(1)
  \/ DismissError

SpecFileInput == Init /\ [][NextFileInput]_vars

\* One selected project that has a summary: files uploaded one after the
\* other, up to MaxReuploads archives
NextReupload ==
  \/ SetProps([selectedBucket |-> "b1", selectedProject |-> "p1"])
  \/ \E t \in rtasks : LoadSummaryResolve(t, {TRUE})
  \/ \E name \in FileNames : handleZipUploadUpTo(name, MaxReuploads)
  \/ \E t \in rtasks : UploadPresignResolve(t)
  \/ \E t \in rtasks : UploadPutResolve(t)
  \/ \E i \in 1..MaxReuploads : PollTick(i)

SpecReupload == Init /\ [][NextReupload]_vars

\* Files dropped on the upload zone, one or two at a time: two files named
\* entries.csv of which one is too large, a file of a type that is not
\* accepted, and a file with an upper-case extension
NextFileUpload ==
  \/ \E file, other \in {[name |-> "entries.csv", size |-> 1024],
                          [name |-> "entries.csv", size |-> maxFileSize + 1],
                          [name |-> "notes.txt", size |-> 1024],
                          [name |-> "DATA.JSON", size |-> maxFileSize]} :
       \/ handleFileSelect(<<file>>)
       \/ handleFileSelect(<<file, other>>)
  \/ \E t \in utasks : FileRequestSettles(t)

SpecFileUpload == Init /\ [][NextFileUpload]_vars

\* The option lists loaded through a gateway that answers with any status
NextGateway ==
  \/ LoadBucketsResolve(ListAnswers(remoteBuckets))
  \/ LoadProjectsResolve(ListAnswers(remoteProjects))
  \/ \E b \in Buckets \cup {""} : SelectClient(b)
  \/ \E p \in ProjectNames \cup {""} : SelectProject(p)
  \/ \E t \in tasks : CheckExistingRulesResolve(t)
  \/ LoadProjectDataFresh

SpecGateway == Init /\ [][NextGateway]_vars

\* Projects selected one after the other over a network that answers every
\* rules read of the keyword, the reads answered in any order
NextKeyword ==
  \/ \E selection \in ReceiptSelections : SetProps(selection)
  \/ \E t \in rtasks : LoadSummaryResolve(t, BOOLEAN)
  \/ \E t \in rtasks : LoadKeywordResolve(t)

SpecKeyword == Init /\ [][NextKeyword]_vars

\* what the data endpoints answer for a processed project with one eligible
\* contestant
ProcessedStatusAnswers == {[status |-> "completed", eligible_contestants |-> 1]}

LoadProjectDataProcessed ==
  \E t \in tasks :
    \/ LoadStatusResolve(t, ProcessedStatusAnswers)
    \/ LoadValidatedResolve(t, {<<"validated.json">>})
    \/ LoadWinnersResolve(t, {<<1>>})

\* The three remote writes of ContestManager side by side: creating a client
\* with its first project (through the Enter key of the modal), saving rules
\* and selecting winners.  The user never touches the two selects: the pair
\* gets selected by the timer that follows a successful creation.
NextWrites ==
  \/ LoadBucketsResolve({[ok |-> TRUE, list |-> remoteBuckets]})
  \/ LoadProjectsResolve({[ok |-> TRUE, list |-> remoteProjects]})
  \/ \E t \in tasks : CheckExistingRulesResolve(t)
  \/ LoadProjectDataProcessed
  \/ EditRules
  \/ handleSubmit
  \/ \E t \in tasks : SetRulesGetResolve(t)
  \/ \E t \in tasks : SetRulesWriteResolve(t)
  \/ selectWinners(NULL)
  \/ \E t \in tasks : SelectWinnersResolve(t)
  \/ openCreateModal("client")
  \/ handleClientNameChange("acme")
  \/ handleProjectHandleChange("7")
  \/ CreateEnterKey
  \/ \E t \in tasks : CreateBucketResolve(t)
  \/ \E t \in tasks : CreateSuccessTimerFires(t)
  \/ \E t \in tasks : CreateErrorTimerFires(t)

SpecWrites == InitWith(UniformStore, OneBucket) /\ [][NextWrites]_vars

\* a store whose rules for b1 have an empty winner_rules list
NoWinnerRulesStore ==
  [pr \in Pairs |-> IF pr[1] = "b1" THEN NoWinnerRulesDoc ELSE NULL]

\* Rules workflow on one project, with the editing of the winner rules list
NextForm ==
  \/ LoadBucketsResolve({[ok |-> TRUE, list |-> remoteBuckets]})
  \/ LoadProjectsResolve({[ok |-> TRUE, list |-> remoteProjects]})
  \/ SelectClient("b1")
  \/ SelectProject("p1")
  \/ \E t \in tasks : CheckExistingRulesResolve(t)
  \/ LoadProjectDataFresh
  \/ EditRules
  \/ \E i \in 1..MaxWinnerRules, text \in {"2", "-1"} : updateWinnerRule(i, text)
  \/ addWinnerRule
  \/ \E i \in 1..MaxWinnerRules : removeWinnerRule(i)
  \/ handleSubmit
  \/ \E t \in tasks : SetRulesGetResolve(t)
  \/ \E t \in tasks : SetRulesWriteResolve(t)

SpecForm == InitWith(NoWinnerRulesStore, OneBucket) /\ [][NextForm]_vars

\* the selection of the one project of b1 and the requests of its effects
SelectOneProject ==
  \/ LoadBucketsResolve({[ok |-> TRUE, list |-> remoteBuckets]})
  \/ LoadProjectsResolve({[ok |-> TRUE, list |-> remoteProjects]})
  \/ SelectClient("b1")
  \/ SelectProject("p1")
  \/ \E t \in tasks : CheckExistingRulesResolve(t)
  \/ LoadProjectDataFresh

\* The draft of a project without rules: the eligible states
NextEligibleStates ==
  \/ SelectOneProject
  \/ selectAllStates
  \/ deselectAllStates
  \/ \E stateCode \in {"CA", "WY"} : handleStateToggle(stateCode)
  \/ \E timezone \in {"HT", "PT"} : selectStatesByTimezone(timezone)

SpecEligibleStates ==
  InitWith(EmptyStore, OneBucket) /\ [][NextEligibleStates]_vars

\* The draft of a project without rules: the winner rules list
NextWinnerRules ==
  \/ SelectOneProject
  \/ \E i \in 1..MaxWinnerRules, text \in CountInputs : updateWinnerRule(i, text)
  \/ addWinnerRule
  \/ \E i \in 1..MaxWinnerRules : removeWinnerRule(i)

SpecWinnerRules == InitWith(EmptyStore, OneBucket) /\ [][NextWinnerRules]_vars

\* a store whose rules for b1 name a state the table does not hold
OutsideStateStore ==
  [pr \in Pairs |->
     IF pr[1] = "b1"
     THEN [DefaultTemplate EXCEPT !.eligible_states = <<"CA", "NY", "DC">>]
     ELSE NULL]

\* Stored rules displayed and edited: the eligible states and their timezones
NextTimezones ==
  \/ SelectOneProject
  \/ EditRules
  \/ deselectAllStates
  \/ \E stateCode \in {"CA", "WY"} : handleStateToggle(stateCode)
  \/ \E timezone \in {"HT", "PT"} : selectStatesByTimezone(timezone)

SpecTimezones == InitWith(OutsideStateStore, OneBucket) /\ [][NextTimezones]_vars

\* Rules of one project, edited, saved and reconciled again after the project
\* is deselected and selected again
NextRoundTrip ==
  \/ LoadBucketsResolve({[ok |-> TRUE, list |-> remoteBuckets]})
  \/ LoadProjectsResolve({[ok |-> TRUE, list |-> remoteProjects]})
  \/ SelectClient("b1")
  \/ \E p \in {"p1", ""} : SelectProject(p)
  \/ \E t \in tasks : CheckExistingRulesResolve(t)
  \/ LoadProjectDataFresh
  \/ EditRules
  \/ \E text \in TotalWinnersInputs : setTotalWinners(text)
  \/ deselectAllStates
  \/ addWinnerRule
  \/ handleSubmit
  \/ \E t \in tasks : SetRulesGetResolve(t)
  \/ \E t \in tasks : SetRulesWriteResolve(t)

SpecRoundTrip == InitWith(EmptyStore, OneBucket) /\ [][NextRoundTrip]_vars

\* "+ New Client" / "+ New Project": the two buttons lie under the overlay
\* of the modal while it is shown
OpenCreateModalButton(type) ==
  /\ ~showCreateModal
  /\ openCreateModal(type)

\* what the status endpoint answers during one run: 'completed' once the
\* client has been told so, 'processing' or 'completed' once it has been told
\* 'processing', and one of `first` before
RunStatusAnswers(first) ==
  IF StatusOf(processingStatus) = "completed"
  THEN {[status |-> "completed", eligible_contestants |-> 1]}
  ELSE IF StatusOf(processingStatus) = "processing"
       THEN {[status |-> "processing", eligible_contestants |-> 0],
             [status |-> "completed", eligible_contestants |-> 1]}
       ELSE first

\* the requests of a processing run and of the reloads are answered, the
\* poll timer fires
NextCompletionReads ==
  \/ \E t \in tasks : CheckExistingRulesResolve(t)
  \/ \E t \in tasks : LoadStatusResolve(t, RunStatusAnswers(FreshStatusAnswers))
  \/ \E t \in tasks : LoadValidatedStores(t, <<"validated.json">>)
  \/ \E t \in tasks : LoadWinnersResolve(t, FreshWinnerAnswers)
  \/ \E t \in tasks : ProcessDataPostResolve(t)
  \/ \E t \in tasks, status \in RunStatusAnswers(PollAnswers) :
       PollStatusResolve(t, status)
  \/ \E t \in tasks : PollTimerFires(t)

\* One project processed over a network that answers every request: the
\* user selects the project and clicks Process Data while no run is under
\* way and none has been seen completed, nothing else
NextCompletion ==
  \/ LoadBucketsResolve({[ok |-> TRUE, list |-> remoteBuckets]})
  \/ LoadProjectsResolve({[ok |-> TRUE, list |-> remoteProjects]})
  \/ SelectClient("b1")
  \/ SelectProject("p1")
  \/ /\ StatusOf(processingStatus) # "completed"
     /\ TasksOf("processData") = {}
     /\ processData
  \/ NextCompletionReads

\* every pending request is answered and every pending timer fires
SpecCompletion ==
  /\ InitWith(UniformStore, OneBucket)
  /\ [][NextCompletion]_vars
  /\ WF_vars(\E t \in tasks : CheckExistingRulesResolve(t))
  /\ WF_vars(\E t \in tasks :
               LoadStatusResolve(t, RunStatusAnswers(FreshStatusAnswers)))
  /\ WF_vars(\E t \in tasks : LoadValidatedStores(t, <<"validated.json">>))
  /\ WF_vars(\E t \in tasks : LoadWinnersResolve(t, FreshWinnerAnswers))
  /\ WF_vars(\E t \in tasks : ProcessDataPostResolve(t))
  /\ WF_vars(\E t \in tasks, status \in RunStatusAnswers(PollAnswers) :
               PollStatusResolve(t, status))
  /\ WF_vars(\E t \in tasks : PollTimerFires(t))

\* Stored rules of one project under edit while the create modal is opened,
\* its flight dates are typed and the draft is submitted
NextEditMode ==
  \/ SelectOneProject
  \/ EditRules
  \/ handleSubmit
  \/ \E t \in tasks : SetRulesGetResolve(t)
  \/ \E t \in tasks : SetRulesWriteResolve(t)
  \/ OpenCreateModalButton("project")
  \/ closeCreateModal
  \/ setFlightStartDate("2024-12-31")
  \/ setFlightEndDate("2025-01-31")

SpecEditMode == InitWith(UniformStore, OneBucket) /\ [][NextEditMode]_vars

\* Provisioning workflow: the create modal with both of its submit paths,
\* against a remote without rules; the new pair is reconciled
NextProvision ==
  \/ LoadBucketsResolve({[ok |-> TRUE, list |-> remoteBuckets]})
  \/ LoadProjectsResolve({[ok |-> TRUE, list |-> remoteProjects]})
  \/ \E t \in tasks : CheckExistingRulesResolve(t)
  \/ LoadProjectDataFresh
  \/ \E type \in {"client", "project"} : OpenCreateModalButton(type)
  \/ closeCreateModal
  \/ handleClientNameChange("Acme_123")
  \/ \E raw \in ProjectHandleInputs : handleProjectHandleChange(raw)
  \/ \E value \in {"2024-12-31"} : setFlightStartDate(value)
  \/ \E value \in {"2024-12-01", "2025-01-31"} : setFlightEndDate(value)
  \/ CreateButtonClick
  \/ CreateEnterKey
  \/ \E t \in tasks : CreateBucketResolve(t)
  \/ \E t \in tasks : CreateSuccessTimerFires(t)
  \/ \E t \in tasks : CreateErrorTimerFires(t)

SpecProvision == InitWith(EmptyStore, OneBucket) /\ [][NextProvision]_vars

(***************************************************************************)
(* Properties                                                              *)
(***************************************************************************)
\* C1: while a pair is selected, a response of checkExistingRules that
\* changes the displayed rules or the edit/saved mode was requested for that
\* pair; the late response for an earlier pair changes nothing.
C1_StaleReconcileDropped ==
  [][\A t \in tasks :
       (/\ hasClientAndProject
        /\ CheckExistingRulesResolve(t)
        /\ <<contestRules', rulesEditMode'>> # <<contestRules, rulesEditMode>>)
       => (t.bucket = selectedBucket /\ t.project = selectedProject)]_vars

\* C2: while a pair is selected, the status poller of processData writes a
\* fetched status into processingStatus, and sends its next status request,
\* only if it was started for that pair.
C2_PollerStopsOnSwitch ==
  [][\A t \in tasks :
       (/\ hasClientAndProject
        /\ \/ \E status \in PollAnswers : PollStatusResolve(t, status)
           \/ PollTimerFires(t))
       => (t.bucket = selectedBucket /\ t.project = selectedProject)]_vars

\* C3: while the props select a project, a summary that a tick of the
\* receipt poller stores as the displayed summary was fetched for that
\* project.
C3_StalePollSummaryDropped ==
  [][\A t \in rtasks :
       (/\ Truthy(props.selectedBucket) /\ Truthy(props.selectedProject)
        /\ t.kind = "loadSummary" /\ t.poller > 0
        /\ LoadSummaryResolve(t, BOOLEAN)
        /\ summary' # NULL)
       => (/\ t.bucket = props.selectedBucket
           /\ t.project = props.selectedProject)]_vars

\* C4: while no read finds a summary, a receipt poller never sends more than
\* maxAttempts summary reads, and a poller that has stopped has sent exactly
\* maxAttempts of them.
C4_ExactlyMaxAttemptsReads ==
  \A i \in 1..Len(pollers) :
    /\ pollers[i].attempts <= maxAttempts
    /\ ~pollers[i].active => pollers[i].attempts = maxAttempts

\* C5: the step in which a receipt poller stops without any summary having
\* been found leaves the timeout error set.
C5_TimeoutErrorSurfaced ==
  [][\A i \in 1..Len(pollers) :
       (pollers[i].active /\ ~pollers'[i].active)
       => (/\ error' # NULL
           /\ error'.message = "Processing timeout - check CloudWatch logs")]_vars

\* C6: canSelectWinners is true exactly when a client and a project are both
\* selected, processingStatus is non-null with status completed, and
\* eligible_contestants > 0.
C6_WinnerGate ==
  canSelectWinners <=>
    (/\ selectedBucket # "" /\ selectedProject # ""
     /\ processingStatus # NULL
     /\ processingStatus.status = "completed"
     /\ processingStatus.eligible_contestants > 0)

\* C6, witness: the gate is open on a processed project with an eligible
\* contestant, after a winner selection has been started
C6_GateOpen ==
  /\ canSelectWinners
  /\ TasksOf("selectWinners") # {}

\* C7: every winner-selection request that is sent asks for an integer number
\* of winners greater than 0.
C7_RequestsPositiveCount ==
  \A t \in TasksOf("selectWinners") :
    /\ t.numberOfWinners # NaN
    /\ t.numberOfWinners.num > 0

\* the cached state of ContestManager
CachedState ==
  <<contestRules, rulesEditMode, processingStatus, winners, buckets, projects,
    selectedBucket, selectedProject>>

\* C8: a step in which a remote write is reported as failed (the alert of
\* setRules or selectWinners, the error state of the create modal) leaves
\* contestRules, the edit/saved mode, processingStatus, winners, the bucket
\* list, the project list and the selected pair as they were.
C8_FailedWriteKeepsCache ==
  [][(\/ alertMsg' # NULL /\ ~alertMsg'.ok
      \/ createStatus = "creating" /\ createStatus' = "error")
     => UNCHANGED CachedState]_vars

\* C8, witness: a save of rules has just failed while rules are displayed
C8_SaveFailedWithRulesCached ==
  /\ alertMsg # NULL /\ ~alertMsg.ok /\ alertMsg.op = "setRules"
  /\ contestRules # NULL

\* C9: no save of rules ends with the failure "rules already exist" reported
\* to the user.
C9_AlreadyExistsNeverReported ==
  ~(/\ alertMsg # NULL
    /\ alertMsg.op = "setRules" /\ ~alertMsg.ok /\ alertMsg.status = 409)

\* C10: every rules document a request of setRules is sent for has an entry
\* window whose end is after its start.
C10_NoRequestForReversedWindow ==
  \A t \in TasksOf("setRules") :
    DateGT(t.rules.entry_end_date, t.rules.entry_start_date)

\* C11: every rules document a request of setRules is sent for has a
\* non-empty winner_rules list without a negative count.
C11_NoRequestForBadWinnerRules ==
  \A t \in TasksOf("setRules") :
    /\ t.rules.winner_rules # << >>
    /\ \A i \in 1..Len(t.rules.winner_rules) :
         t.rules.winner_rules[i].count >= 0

\* C12: the rules document of every request a submit sends carries the
\* flight start and end dates of the Selection Context (flightStartDate,
\* flightEndDate), not those of the draft.
C12_PayloadCarriesContextFlightDates ==
  [][handleSubmit =>
       \A t \in tasks' \ tasks :
         t.kind = "setRules" =>
           /\ t.rules.flight_start_date = flightStartDate
           /\ t.rules.flight_end_date = flightEndDate]_vars

\* C13: every step that changes the selected client leaves no project
\* selected, unless it is the provisioning step that replaces client and
\* project together.
C13_ClientChangeClearsProject ==
  [][selectedBucket' # selectedBucket =>
       \/ selectedProject' = ""
       \/ \E t \in tasks : CreateSuccessTimerFires(t)]_vars

\* C14: right after the user selects a different client, contestRules,
\* processingStatus, winners and the validated-file listing are empty.
C14_ClientChangeClearsCaches ==
  [][(\E b \in Buckets \cup {""} : SelectClient(b)) =>
       /\ contestRules' = NULL
       /\ processingStatus' = NULL
       /\ winners' = << >>
       /\ validatedFiles' = << >>]_vars

\* C15: every step that starts a creation request is taken with the whole
\* validity gate of the modal's submit button satisfied.
C15_CreationOnlyThroughGate ==
  [][(createStatus # "creating" /\ createStatus' = "creating") =>
       ~CreateButtonDisabled]_vars

\* the transitions of the provisioning state
ProvisioningTransitions ==
  {<<"idle", "creating">>, <<"creating", "success">>, <<"creating", "error">>,
   <<"success", "idle">>, <<"error", "idle">>}

\* C16: createStatus changes only along idle -> creating -> success | error
\* -> idle, and it leaves creating only in the step in which the creation
\* request is answered.
C16_ProvisioningStateMachine ==
  [][createStatus' # createStatus =>
       /\ <<createStatus, createStatus'>> \in ProvisioningTransitions
       /\ createStatus = "creating" =>
            \E t \in tasks : CreateBucketResolve(t)]_vars

\* C17: the step of the success delay leaves the created pair selected, its
\* bucket and project in the local lists, and has the selection effect issue
\* the rules reconciliation for that pair.
C17_CreatedPairSelectedAndReconciled ==
  [][\A t \in tasks :
       CreateSuccessTimerFires(t) =>
         /\ selectedBucket' = t.fullBucketName
         /\ selectedProject' = t.projectName
         /\ t.fullBucketName \in Range(buckets')
         /\ t.projectName \in Range(projects')
         /\ CheckTask(t.fullBucketName, t.projectName) \in SelectionEffect]_vars

\* C18: neither the bucket list nor the project list holds a name twice.
C18_ListsHaveNoDuplicates ==
  /\ Cardinality(Range(buckets)) = Len(buckets)
  /\ Cardinality(Range(projects)) = Len(projects)

\* C18, witness: the bucket list was loaded, a created client has been
\* merged into it, and the project list has been refreshed from the remote
\* after the merge
C18_MergedAndRefreshed ==
  /\ selectedBucket = "sweepstakes-acme"
  /\ buckets = <<"b1", "sweepstakes-acme">>
  /\ projects = <<"p1", "project-0007">>
  /\ TasksOf("loadBuckets") = {} /\ TasksOf("createNewBucket") = {}

\* C19: when the rules lookup for the selected pair finds no rules while the
\* Selection Context holds a valid flight window, the workflow is in edit
\* mode, nothing is alerted, and the draft of the form is the default
\* template with the flight dates of the Selection Context.
C19_NotFoundOpensPrefilledDraft ==
  [][\A t \in tasks :
       (/\ t \in TasksOf("checkExistingRules")
        /\ t.bucket = selectedBucket /\ t.project = selectedProject
        /\ remoteRules[<<t.bucket, t.project>>] = NULL
        /\ isValidDateRange
        /\ CheckExistingRulesResolve(t))
       => /\ rulesEditMode' /\ alertMsg' = NULL
          /\ formData' =
               [DefaultTemplate EXCEPT !.flight_start_date = flightStartDate,
                                       !.flight_end_date = flightEndDate]]_vars

\* C20: when the rules lookup fails for another reason than not-found, the
\* workflow is in edit mode and a warning is surfaced (an alert or an error
\* entry), which the not-found outcome does not set.
C20_LookupFailureWarns ==
  [][\A t \in tasks :
       (/\ t \in TasksOf("checkExistingRules")
        /\ \E answer \in GetContestRulesAnswers(t.bucket, t.project) :
             /\ ~answer.ok /\ answer.status # 404
             /\ ApplyExistingRules(t, getExistingRules(answer))
        /\ CheckExistingRulesResolve(t))
       => /\ rulesEditMode'
          /\ alertMsg' # NULL \/ errors' # errors]_vars

\* C23: choosing a file whose name does not end in .zip sets an error and
\* nothing else: no request is started, no poller, and neither uploading nor
\* processing is set.
C23_NonZipRejectedLocally ==
  [][handleZipUpload("notes.txt") =>
       /\ error' # NULL
       /\ rtasks' = rtasks /\ pollers' = pollers
       /\ ~uploading' /\ ~processing']_vars

\* C23, witness: the rejection of a file that is no ZIP archive is displayed
C23_NonZipRejected ==
  /\ error # NULL /\ error.message = "Please upload a ZIP file"
  /\ ~uploading /\ ~processing

\* C26: the step in which a tick of the receipt poller stores a summary it
\* found stops that poller and leaves uploading and processing false.
C26_FoundSummaryStopsPoller ==
  [][\A t \in rtasks :
       (/\ t.kind = "loadSummary" /\ t.poller > 0
        /\ pollers[t.poller].active
        /\ LoadSummaryResolve(t, BOOLEAN)
        /\ summary' # NULL)
       => /\ ~pollers'[t.poller].active
          /\ ~uploading' /\ ~processing']_vars

\* C29: the step in which the presign request or the upload fails leaves an
\* error set, uploading and processing false, and starts no poller.
C29_FailedUploadReturnsToIdle ==
  [][\A t \in rtasks :
       ((UploadPresignResolve(t) \/ UploadPutResolve(t)) /\ UploadFails(t))
       => /\ error' # NULL
          /\ ~uploading' /\ ~processing'
          /\ pollers' = pollers]_vars

\* the calls of pollStatus pending among `ts`: a status request in flight or
\* a timer waiting to send the next one
PollerTasks(ts) ==
  {u \in ts : u.kind = "processData" /\ u.pc \in {"pollFetch", "pollWait"}}

\* C27: when the request that triggers the processing succeeds, the first
\* status request is sent in the same step; every fetched status is stored as
\* processingStatus in the step that receives it; that step schedules the next
\* request exactly if the status is 'processing', ends the poller otherwise,
\* and on 'completed' starts the reload of the project data.
C27_PollerProtocol ==
  [][\A t \in tasks :
       /\ (ProcessDataPostResolve(t) /\ alertMsg' = NULL)
            => [t EXCEPT !.pc = "pollFetch"] \in tasks'
       /\ \A status \in PollAnswers :
            PollStatusResolve(t, status)
            => /\ processingStatus' = status
               /\ PollerTasks(tasks') =
                    PollerTasks(tasks \ {t}) \cup
                    (IF status.status = "processing"
                     THEN {[t EXCEPT !.pc = "pollWait"]} ELSE {})
               /\ status.status = "completed"
                    => \E u \in tasks' : /\ u.kind = "loadProjectData"
                                          /\ u.bucket = t.bucket
                                          /\ u.project = t.project]_vars

\* C27, witness: a 'processing' status is stored and the timer of the next
\* status request is pending
C27_PollingAgain ==
  /\ StatusOf(processingStatus) = "processing"
  /\ \E t \in PollerTasks(tasks) : t.pc = "pollWait"

\* C28: the step in which a status request of the poller is rejected tells
\* the user: an alert, an error, or a changed processingStatus.
C28_StatusFailureSurfaced ==
  [][\A t \in tasks :
       PollStatusReject(t)
       => \/ alertMsg' # NULL
          \/ errors' # errors
          \/ processingStatus' # processingStatus]_vars
\* C24: while a pair is selected, flightStartDate and flightEndDate change
\* only in a step that changes the selected pair (a selection by the user,
\* or the selection of the pair a creation has provisioned); opening,
\* closing and editing the create modal leave them as they are.
C24_FlightWindowFrame ==
  [][(/\ hasClientAndProject
      /\ <<flightStartDate', flightEndDate'>> # <<flightStartDate, flightEndDate>>)
     => <<selectedBucket', selectedProject'>> # <<selectedBucket, selectedProject>>]_vars

\* C25: whenever the modal of type 'project' shows its inputs with a valid
\* project handle and a valid flight date range, createNewBucket goes on to
\* 'creating' and sends the request, whatever the client name holds.
C25_ProjectModeSubmits ==
  (/\ ModalInputsShown /\ modalType = "project"
   /\ Truthy(projectHandle) /\ isValidProjectHandle(projectHandle)
   /\ isValidDateRange)
  => ~createNewBucketReturns
\* C21: when the rules of the selected pair are displayed as saved and a
\* reconciliation of that pair is answered with the stored document, the
\* rules stay displayed as saved and their eligible_states, winner_rules and
\* total_winners are what they were: what the submit stored locally is what
\* the remote echoes.
C21_SubmitThenReconcileIsIdentity ==
  [][\A t \in tasks :
       (/\ t.kind = "checkExistingRules"
        /\ t.bucket = selectedBucket /\ t.project = selectedProject
        /\ hasClientAndProject
        /\ ~rulesEditMode /\ contestRules # NULL
        /\ CheckExistingRulesResolve(t)
        /\ contestRules' # NULL)
       => /\ ~rulesEditMode'
          /\ contestRules'.eligible_states = contestRules.eligible_states
          /\ contestRules'.winner_rules = contestRules.winner_rules
          /\ contestRules'.total_winners = contestRules.total_winners]_vars

\* the state codes of the table
StateCodes == {AllStates[j] : j \in 1..Len(AllStates)}

\* C22: on every draft, 'select all' applied twice gives what it gives
\* applied once, and 'deselect all' followed by 'select all' gives every
\* state code of the table exactly once.
C22_SelectAllIdempotent ==
  FormMounted =>
    /\ selectAll(selectAll(formData)) = selectAll(formData)
    /\ LET states == selectAll(deselectAll(formData)).eligible_states
       IN /\ {states[j] : j \in 1..Len(states)} = StateCodes
          /\ Len(states) = Cardinality(StateCodes)
          /\ \A code \in StateCodes : timezoneOf(code) \in
                {"ET", "CT", "MT", "PT", "AKT", "HT"}

\* C22, witness: a draft in which "Select All" has selected every state of
\* the table
C22_AllSelected ==
  /\ FormMounted
  /\ formData.eligible_states = AllStates

\* C30: the winner rules list of a draft that started with a rule is never
\* empty, whatever rows are added, changed and removed.
C30_WinnerRulesNeverEmpty ==
  FormMounted => Len(formData.winner_rules) >= 1

\* C31: addWinnerRule appends one row with count 1 and period 'day' to the
\* end of the list, and the id of that row is the id of no row the list held.
C31_AddedRowHasNewId ==
  [][addWinnerRule =>
       LET rows == formData.winner_rules
           new == formData'.winner_rules[Len(rows) + 1]
       IN /\ Len(formData'.winner_rules) = Len(rows) + 1
          /\ SubSeq(formData'.winner_rules, 1, Len(rows)) = rows
          /\ new.count = 1 /\ new.period = "day"
          /\ \A j \in 1..Len(rows) : rows[j].id # new.id]_vars

\* C32: a change of the count input of row i changes the count of row i and
\* nothing else: the other rows, their order, the length of the list and
\* the other fields of the draft stay as they are.
C32_UpdateChangesOneRow ==
  [][\A i \in 1..MaxWinnerRules, text \in CountInputs :
       updateWinnerRule(i, text)
       => LET rows == formData.winner_rules
          IN /\ Len(formData'.winner_rules) = Len(rows)
             /\ formData'.winner_rules[i] =
                  [rows[i] EXCEPT !.count = countOf(text)]
             /\ \A j \in 1..Len(rows) :
                  j # i => formData'.winner_rules[j] = rows[j]
             /\ [formData' EXCEPT !.winner_rules = rows] = formData]_vars

\* C33: a timezone button leaves as eligible_states the union of the states
\* selected before and the states of that timezone: every state selected
\* before is still selected, every state of the timezone is selected, no
\* other state is, and no code appears twice.
C33_TimezoneSelectionIsUnion ==
  [][\A timezone \in {"HT", "PT"} :
       selectStatesByTimezone(timezone)
       => LET old == formData.eligible_states
              new == formData'.eligible_states
          IN /\ {new[j] : j \in 1..Len(new)} =
                  {old[j] : j \in 1..Len(old)} \cup
                  {code \in StateCodes : timezoneOf(code) = timezone}
             /\ \A j, k \in 1..Len(new) : new[j] = new[k] => j = k]_vars

\* C33, witness: the states of the Pacific timezone are added to the
\* template's selection, of which California was selected before
C33_PacificAdded ==
  /\ FormMounted
  /\ formData.eligible_states = <<"CA", "NY", "TX", "FL", "NV", "OR", "WA">>

C35_KeywordOfSelectedProject ==
  (/\ Truthy(props.selectedProject)
   /\ LoadKeywordTask(props.selectedBucket, props.selectedProject) \notin rtasks)
  => keyword = keywordFromRules(savedKeywordFields(props.selectedProject), "")

\* C36: a gateway call fails with an error that carries the status exactly
\* when the status of the response to its one request is 400 or more; a
\* response of any lower status gives the caller the body.  Here the call is
\* the bucket list request of loadBuckets.
C36_FailsExactlyFrom400 ==
  [][\A status \in Statuses :
       LoadBucketsResolve({request([status |-> status, body |-> remoteBuckets])})
       => /\ status >= 400 => /\ buckets' = << >>
                              /\ errors'.buckets # NULL
          /\ status < 400 => /\ buckets' = remoteBuckets
                             /\ errors' = errors]_vars

\* C37: while the selected pair stays the same, a rules section put into
\* edit mode over its saved rules (Edit Rules) goes back to the saved display
\* only in the step in which a submit of the draft is answered; a flight
\* date typed into the create modal or the opening or closing of the modal
\* starts no reconciliation that does so.
C37_OnlySubmitLeavesEditMode ==
  [][(/\ hasClientAndProject /\ rulesEditMode /\ contestRules # NULL
      /\ selectedBucket' = selectedBucket
      /\ selectedProject' = selectedProject
      /\ ~rulesEditMode')
     => \E t \in tasks : SetRulesWriteResolve(t)]_vars

C39_OnePollLoop ==
  Cardinality({t \in TasksOf("processData") :
                 t.pc \in {"pollFetch", "pollWait"}}) <= 1

\* C40: a step of one call of uploadFile changes no entry of the uploads
\* list but the one that call appended, and a selection of files changes no
\* entry that was in the list before; a file that fails validation starts
\* no request.
C40_EntryFollowsOwnRun ==
  [][/\ \A t \in utasks :
          FileRequestSettles(t)
          => \A j \in 1..Len(uploads) :
               j # t.entry => uploads'[j] = uploads[j]
     /\ Len(uploads') > Len(uploads)
          => /\ SubSeq(uploads', 1, Len(uploads)) = uploads
             /\ \A t \in utasks' \ utasks :
                  uploads'[t.entry].status = "uploading"]_vars
====
